---- MODULE Spec2Model ----
(***************************************************************************)
(* University-Nexus backend: the relational store (Student, Faculty, User, *)
(* SubjectEnrollment with its roster join table, Attendance), the          *)
(* attendance and enrollment services that write it, the role-gating       *)
(* middleware of the route families and the student attendance summary.    *)
(***************************************************************************)
EXTENDS Integers, Sequences, FiniteSets, TLC

\* ------------------------------------------------------------------ bounds
MaxSubjects == 1     \* SubjectEnrollment rows ever created
MaxCalls    == 3     \* service calls issued in one behaviour
MaxTuples   == 2     \* length of studentAttendances / studentEmails lists
MaxDate     == 2     \* calendar dates are 1..MaxDate
MaxConcurrentCalls == 2  \* markBulkAttendance calls of a concurrent run
MaxNameLen == 3          \* characters of a name
MaxRequests == 2     \* HTTP requests issued in one behaviour
MaxSummaryDate == 3  \* dates of the stores drawn for the summary

\* ---------------------------------------------------------------- universe
Null == "null"

StudentEmails == {"s1", "s2", "s3"}      \* "s3" never has a Student row
FacultyEmails == {"f1", "f2", "f3"}      \* "f3" never has a Faculty row
Dates         == 1..MaxDate
NoDate        == 0                        \* request without a date field
RemarkValues  == {"ok", "late"}
Procs         == {1, 2}                   \* concurrent request slots
SeqProcs      == {1}                      \* the slot of one-at-a-time calls
SubjectIds    == 1..(MaxSubjects + 1)

\* new Date().toISOString().split('T')[0]
Today == 1

VARIABLES
    faculty,          \* emails of the Faculty rows
    students,         \* emails of the Student rows
    subjects,         \* SubjectEnrollment rows: id -> [facultyEmail, roster]
    nextSubjectId,    \* auto-increment of subject_enrollments.id
    attendance,       \* Attendance rows (records with an auto-increment id)
    nextAttendanceId, \* auto-increment of attendance.id
    bulk,             \* per request slot: position inside markBulkAttendance
    last,             \* outcome of the latest completed call
    nCalls,           \* number of calls completed so far
    users,            \* User rows: [firebaseUid, email, role]
    accounts,         \* emails of the identity provider's accounts
    images,           \* emails of the Student rows whose stuImage is set
    announcements,    \* ids of the Announcement rows
    nextAnnouncementId,
    calendars,        \* ids of the Calendar rows
    nextCalendarId,
    resp              \* the latest HTTP response

vars == <<faculty, students, subjects, nextSubjectId, attendance,
          nextAttendanceId, bulk, last, nCalls, users, accounts, images, announcements,
          nextAnnouncementId, calendars, nextCalendarId, resp>>

httpVars == <<users, accounts, images, announcements, nextAnnouncementId, calendars,
              nextCalendarId, resp>>

storeVars == <<faculty, students, subjects, nextSubjectId, attendance,
               nextAttendanceId>>

\* ------------------------------------------------------------- the store

NoCall == [op |-> "none", ok |-> TRUE, message |-> "", who |-> Null,
           unchanged |-> TRUE]

NoUser == [firebaseUid |-> Null, email |-> Null, role |-> Null]

\* the User rows that provisioning of the seeded people creates
SeedUsers ==
    {[firebaseUid |-> "uA",  email |-> "admin", role |-> "admin"],
     [firebaseUid |-> "uS1", email |-> "s1",    role |-> "student"],
     [firebaseUid |-> "uS2", email |-> "s2",    role |-> "student"],
     [firebaseUid |-> "uF1", email |-> "f1",    role |-> "faculty"],
     [firebaseUid |-> "uF2", email |-> "f2",    role |-> "faculty"]}

NoBody == [owner |-> Null, kind |-> "none"]

NoResponse == [route |-> "none", header |-> [scheme |-> "none", token |-> ""],
               email |-> Null, status |-> 0, message |-> "",
               handled |-> FALSE, body |-> NoBody]

\* Attendance.findAll({ where: { studentEmail, subjectId, date } })
AttendanceFor(att, email, sid, d) ==
    {a \in att : a.studentEmail = email /\ a.subjectId = sid /\ a.date = d}

\* subject.hasEnrolledStudents(student): a query on the join table
HasEnrolledStudents(subj, sid, email) ==
    sid \in DOMAIN subj /\ email \in subj[sid].roster

NoSubject == [id |-> 0, faculty |-> Null]   \* findOne returned null
NoRow     == 0                                \* findOne returned null

\* SubjectEnrollment.findOne({ where: { id }, include: faculty })
FindSubject(subj, fac, sid) ==
    IF sid \in DOMAIN subj
    THEN [id |-> sid,
          faculty |-> IF subj[sid].facultyEmail \in fac
                      THEN subj[sid].facultyEmail ELSE Null]
    ELSE NoSubject

\* Attendance.create({...})
NewAttendance(id, email, fEmail, sid, d, sa) ==
    [id |-> id, studentEmail |-> email, facultyEmail |-> fEmail,
     subjectId |-> sid, date |-> d, present |-> sa.present,
     remarks |-> sa.remarks]

\* attendance.update({ present, remarks }) on the row with that id
UpdateAttendance(att, id, sa) ==
    {IF a.id = id THEN [a EXCEPT !.present = sa.present,
                                 !.remarks = sa.remarks]
     ELSE a : a \in att}

\* -------------------------------------------------- markBulkAttendance
\* One slot of `bulk` is one call in progress; every await of the method is
\* one step.  The elements of request.studentAttendances are drawn one at a
\* time, when the loop reaches them (`left` counts those still to come).

TupleValues == [studentEmail : StudentEmails, present : BOOLEAN,
                remarks : RemarkValues]

NoTuple == [studentEmail |-> Null, present |-> FALSE, remarks |-> Null]

IdleSlot ==
    [pc |-> "idle", facultyEmail |-> Null, subjectId |-> 0, date |-> NoDate,
     subject |-> NoSubject, sa |-> NoTuple, left |-> 0, found |-> NoRow,
     results |-> <<>>, before |-> {}]

\* const attendanceDate = date || new Date().toISOString().split('T')[0]
AttendanceDate(d) == IF d = NoDate THEN Today ELSE d

NoneInFlight == \A p \in Procs : bulk[p].pc = "idle"

\* the call returns or throws: its outcome is recorded and the slot is freed
Finish(p, ok, msg, who) ==
    /\ last' = [op |-> "markBulk", ok |-> ok, message |-> msg, who |-> who,
                unchanged |-> (attendance = bulk[p].before)]
    /\ nCalls' = nCalls + 1
    /\ bulk' = [bulk EXCEPT ![p] = IdleSlot]

\* entry into markBulkAttendance(request), n = studentAttendances.length
BulkEnter(p, fEmail, sid, d, n) ==
    /\ bulk' = [bulk EXCEPT ![p] = [IdleSlot EXCEPT !.pc = "faculty",
                    !.facultyEmail = fEmail, !.subjectId = sid, !.date = d,
                    !.left = n, !.before = attendance]]
    /\ UNCHANGED <<storeVars, last, nCalls>>

\* a call made while no other call is in progress
BulkStart(p, fEmail, sid, d, n) ==
    /\ NoneInFlight
    /\ nCalls < MaxCalls
    /\ BulkEnter(p, fEmail, sid, d, n)

\* Faculty.findOne({ where: { email: facultyEmail } })
BulkFindFaculty(p) ==
    /\ bulk[p].pc = "faculty"
    /\ IF bulk[p].facultyEmail \in faculty
       THEN /\ bulk' = [bulk EXCEPT ![p].pc = "subject"]
            /\ UNCHANGED <<last, nCalls>>
       ELSE Finish(p, FALSE, "Faculty not found", Null)
    /\ UNCHANGED storeVars

\* variant: the teacher-of-record comparison is left out
BulkFindSubjectAnyTeacher(p) ==
    /\ bulk[p].pc = "subject"
    /\ LET s == FindSubject(subjects, faculty, bulk[p].subjectId) IN
       IF s = NoSubject
       THEN Finish(p, FALSE, "Subject not found", Null)
       ELSE /\ bulk' = [bulk EXCEPT ![p].pc = "student", ![p].subject = s,
                                    ![p].date = AttendanceDate(bulk[p].date)]
            /\ UNCHANGED <<last, nCalls>>
    /\ UNCHANGED storeVars

\* SubjectEnrollment.findOne(...), the teacher-of-record comparison and
\* the choice of attendanceDate
BulkFindSubject(p) ==
    /\ bulk[p].pc = "subject"
    /\ LET s == FindSubject(subjects, faculty, bulk[p].subjectId) IN
       IF s = NoSubject
       THEN Finish(p, FALSE, "Subject not found", Null)
       ELSE IF s.faculty = Null
       THEN Finish(p, FALSE, "TypeError", Null)
       ELSE IF s.faculty # bulk[p].facultyEmail
       THEN Finish(p, FALSE, "Faculty doesn't teach this subject", Null)
       ELSE /\ bulk' = [bulk EXCEPT ![p].pc = "student", ![p].subject = s,
                                    ![p].date = AttendanceDate(bulk[p].date)]
            /\ UNCHANGED <<last, nCalls>>
    /\ UNCHANGED storeVars

\* loop head and Student.findOne({ where: { email: sa.studentEmail } })
BulkFindStudent(p) ==
    /\ bulk[p].pc = "student"
    /\ IF bulk[p].left = 0
       THEN Finish(p, TRUE, "", Null)
       ELSE \E sa \in TupleValues :
            IF sa.studentEmail \in students
            THEN /\ bulk' = [bulk EXCEPT ![p].pc = "enrolled", ![p].sa = sa,
                                         ![p].left = @ - 1]
                 /\ UNCHANGED <<last, nCalls>>
            ELSE Finish(p, FALSE, "Student not found", sa.studentEmail)
    /\ UNCHANGED storeVars

\* variant: the roster is not consulted
BulkCheckEnrolledSkipped(p) ==
    /\ bulk[p].pc = "enrolled"
    /\ bulk' = [bulk EXCEPT ![p].pc = "find"]
    /\ UNCHANGED <<storeVars, last, nCalls>>

\* await subject.hasEnrolledStudents(student)
BulkCheckEnrolled(p) ==
    /\ bulk[p].pc = "enrolled"
    /\ LET b == bulk[p] IN
       IF HasEnrolledStudents(subjects, b.subject.id, b.sa.studentEmail)
       THEN /\ bulk' = [bulk EXCEPT ![p].pc = "find"]
            /\ UNCHANGED <<last, nCalls>>
       ELSE Finish(p, FALSE, "Student not enrolled", b.sa.studentEmail)
    /\ UNCHANGED storeVars

\* Attendance.findOne({ where: { studentEmail, subjectId, date } })
BulkFindAttendance(p) ==
    /\ bulk[p].pc = "find"
    /\ LET b == bulk[p]
           m == AttendanceFor(attendance, b.sa.studentEmail, b.subject.id,
                              b.date)
       IN  IF m = {}
           THEN bulk' = [bulk EXCEPT ![p].pc = "write", ![p].found = NoRow]
           ELSE \E a \in m :
                  bulk' = [bulk EXCEPT ![p].pc = "write", ![p].found = a.id]
    /\ UNCHANGED <<storeVars, last, nCalls>>

\* variant: the existing row is ignored and a row is always created
BulkWriteRowsAlwaysCreate(att, nextId, b) ==
    att \cup {NewAttendance(nextId, b.sa.studentEmail, b.facultyEmail,
                            b.subject.id, b.date, b.sa)}

\* variant: the key is looked up again at the write and an existing row
\* is updated
BulkWriteRowsUpsert(att, nextId, b) ==
    LET m == AttendanceFor(att, b.sa.studentEmail, b.subject.id, b.date) IN
    IF m = {}
    THEN att \cup {NewAttendance(nextId, b.sa.studentEmail, b.facultyEmail,
                                 b.subject.id, b.date, b.sa)}
    ELSE UpdateAttendance(att, (CHOOSE a \in m : TRUE).id, b.sa)

\* the table after the write for the tuple b.sa: if (!attendance) create,
\* else update
BulkWriteRows(att, nextId, b) ==
    IF b.found = NoRow
    THEN att \cup {NewAttendance(nextId, b.sa.studentEmail, b.facultyEmail,
                                 b.subject.id, b.date, b.sa)}
    ELSE UpdateAttendance(att, b.found, b.sa)

\* Attendance.create(...) or attendance.update(...), results.push(attendance).
\* subjectId REFERENCES subject_enrollments (id): the INSERT is rejected
\* when the subject has been deleted since it was found
BulkWrite(p) ==
    /\ bulk[p].pc = "write"
    /\ LET b  == bulk[p]
           id == IF b.found = NoRow THEN nextAttendanceId ELSE b.found
       IN  IF b.found = NoRow /\ b.subject.id \notin DOMAIN subjects
           THEN /\ Finish(p, FALSE, "a foreign key constraint fails", Null)
                /\ UNCHANGED <<attendance, nextAttendanceId>>
           ELSE /\ attendance' = BulkWriteRows(attendance, nextAttendanceId, b)
                /\ nextAttendanceId' = IF b.found = NoRow
                                       THEN nextAttendanceId + 1
                                       ELSE nextAttendanceId
                /\ bulk' = [bulk EXCEPT ![p].pc = "student",
                                        ![p].found = NoRow, ![p].sa = NoTuple,
                                        ![p].results = Append(b.results, id)]
                /\ UNCHANGED <<last, nCalls>>
    /\ UNCHANGED <<faculty, students, subjects, nextSubjectId>>

\* ------------------------------------------ SubjectEnrollmentService

Range(f) == {f[i] : i \in DOMAIN f}

SeqsUpTo(S, n) == UNION {[1..k -> S] : k \in 0..n}

EnrollmentRequests ==
    [emailId : FacultyEmails,
     studentEmails : SeqsUpTo(StudentEmails, MaxTuples)]

\* variant: every listed email counts as found
FindStudentsByEmailUnfiltered(studs, emails) == Range(emails)

\* Student.findAll({ where: { email: studentEmails } })
FindStudentsByEmail(studs, emails) == {e \in Range(emails) : e \in studs}

\* variant: the enrollment is created and no student is linked
WithEnrollmentUnlinked(subj, id, fEmail, found) ==
    [k \in DOMAIN subj \cup {id} |->
        IF k = id THEN [facultyEmail |-> fEmail, roster |-> {}]
        ELSE subj[k]]

\* SubjectEnrollment.create(...) followed by enrollment.setEnrolledStudents
WithEnrollment(subj, id, fEmail, found) ==
    [k \in DOMAIN subj \cup {id} |->
        IF k = id THEN [facultyEmail |-> fEmail, roster |-> found]
        ELSE subj[k]]

\* the call returns or throws: its outcome is recorded
Done(op, ok, msg) ==
    /\ last' = [op |-> op, ok |-> ok, message |-> msg, who |-> Null,
                unchanged |-> TRUE]
    /\ nCalls' = nCalls + 1

createEnrollmentForSpecificStudents(req) ==
    /\ NoneInFlight
    /\ nCalls < MaxCalls
    /\ nextSubjectId <= MaxSubjects
    /\ LET found == FindStudentsByEmail(students, req.studentEmails) IN
       IF req.emailId \notin faculty
       THEN /\ Done("createSpecific", FALSE, "Faculty not found")
            /\ UNCHANGED <<subjects, nextSubjectId>>
       ELSE IF Cardinality(found) # Len(req.studentEmails)
       THEN /\ Done("createSpecific", FALSE, "One or more students not found")
            /\ UNCHANGED <<subjects, nextSubjectId>>
       ELSE /\ subjects' = WithEnrollment(subjects, nextSubjectId,
                                          req.emailId, found)
            /\ nextSubjectId' = nextSubjectId + 1
            /\ Done("createSpecific", TRUE, "")
    /\ UNCHANGED <<faculty, students, attendance, nextAttendanceId, bulk>>

\* variant: adding a student already on the roster takes the student off
AddToRosterToggle(subj, id, email) ==
    [subj EXCEPT ![id].roster = IF email \in @ THEN @ \ {email}
                                ELSE @ \cup {email}]

\* enrollment.addEnrolledStudents(student)
AddToRoster(subj, id, email) ==
    [subj EXCEPT ![id].roster = @ \cup {email}]

\* enrollment.removeEnrolledStudents(student)
RemoveFromRoster(subj, id, email) ==
    [subj EXCEPT ![id].roster = @ \ {email}]

addStudentToEnrollment(id, email) ==
    /\ NoneInFlight
    /\ nCalls < MaxCalls
    /\ IF id \notin DOMAIN subjects \/ email \notin students
       THEN /\ Done("addStudent", FALSE, "")
            /\ UNCHANGED subjects
       ELSE /\ subjects' = AddToRoster(subjects, id, email)
            /\ Done("addStudent", TRUE, "")
    /\ UNCHANGED <<faculty, students, nextSubjectId, attendance,
                   nextAttendanceId, bulk>>

RemoveStudentCall(id, email) ==
    /\ IF id \notin DOMAIN subjects \/ email \notin students
       THEN /\ Done("removeStudent", FALSE, "")
            /\ UNCHANGED subjects
       ELSE /\ subjects' = RemoveFromRoster(subjects, id, email)
            /\ Done("removeStudent", TRUE, "")
    /\ UNCHANGED <<faculty, students, nextSubjectId, attendance,
                   nextAttendanceId, bulk>>

\* a call made while no other call is in progress
removeStudentFromEnrollment(id, email) ==
    /\ NoneInFlight
    /\ nCalls < MaxCalls
    /\ RemoveStudentCall(id, email)

Init ==
    /\ faculty = {"f1", "f2"}
    /\ students = {"s1", "s2"}
    /\ subjects = <<>>
    /\ nextSubjectId = 1
    /\ attendance = {}
    /\ nextAttendanceId = 1
    /\ bulk = [p \in Procs |-> IdleSlot]
    /\ last = NoCall
    /\ nCalls = 0
    /\ users = SeedUsers
    /\ accounts = {u.email : u \in SeedUsers}
    /\ images = {"s1"}
    /\ announcements = {}
    /\ nextAnnouncementId = 1
    /\ calendars = {}
    /\ nextCalendarId = 1
    /\ resp = NoResponse

\* the services called one at a time, without the HTTP layer
Next ==
    \/ \E p \in SeqProcs, f \in FacultyEmails, sid \in SubjectIds,
          d \in Dates \cup {NoDate}, n \in 1..MaxTuples :
          BulkStart(p, f, sid, d, n) /\ UNCHANGED httpVars
    \/ \E p \in Procs : BulkFindFaculty(p) /\ UNCHANGED httpVars
    \/ \E p \in Procs : BulkFindSubject(p) /\ UNCHANGED httpVars
    \/ \E p \in Procs : BulkFindStudent(p) /\ UNCHANGED httpVars
    \/ \E p \in Procs : BulkCheckEnrolled(p) /\ UNCHANGED httpVars
    \/ \E p \in Procs : BulkFindAttendance(p) /\ UNCHANGED httpVars
    \/ \E p \in Procs : BulkWrite(p) /\ UNCHANGED httpVars
    \/ \E req \in EnrollmentRequests :
          createEnrollmentForSpecificStudents(req) /\ UNCHANGED httpVars
    \/ \E id \in SubjectIds, e \in StudentEmails :
          addStudentToEnrollment(id, e) /\ UNCHANGED httpVars
    \/ \E id \in SubjectIds, e \in StudentEmails :
          removeStudentFromEnrollment(id, e) /\ UNCHANGED httpVars

Spec == Init /\ [][Next]_vars

\* ======================================================== identity and gates

\* bearer credentials: one per seeded user, one whose subject has no User row,
\* one that the identity provider rejects
Tokens == {"tokA", "tokS1", "tokS2", "tokF1", "tokGhost", "tokBad"}

NoHeader == [scheme |-> "none", token |-> ""]

\* the Authorization headers tried: absent, a non-Bearer scheme, "Bearer "
\* followed by a token or by nothing
Headers ==
    {NoHeader, [scheme |-> "Basic", token |-> "tokA"]}
        \cup [scheme : {"Bearer"}, token : Tokens \cup {""}]

\* admin.auth().verifyIdToken(idToken): the uid of the token, "" on rejection
DecodeToken(tok) ==
    CASE tok = "tokA"     -> "uA"
      [] tok = "tokS1"    -> "uS1"
      [] tok = "tokS2"    -> "uS2"
      [] tok = "tokF1"    -> "uF1"
      [] tok = "tokGhost" -> "uGhost"
      [] OTHER            -> ""

\* User.findOne({ where: { firebaseUid: uid } })
FindUserByUid(us, uid) ==
    IF \E u \in us : u.firebaseUid = uid
    THEN CHOOSE u \in us : u.firebaseUid = uid
    ELSE NoUser

\* AuthService.verifyTokenAndGetUser: [error, user]; error is "" when the
\* method returns (the user row or null). The copy of the service under
\* backend/services throws 'Invalid Firebase ID token' for every failure; the
\* middlewares answer 401 to either message.
verifyTokenAndGetUser(us, idToken) ==
    IF idToken = ""
    THEN [error |-> "ID token is required and must be a string",
          user |-> NoUser]
    ELSE IF DecodeToken(idToken) = ""
    THEN [error |-> "Invalid Firebase ID token", user |-> NoUser]
    ELSE [error |-> "", user |-> FindUserByUid(us, DecodeToken(idToken))]

\* !authHeader || !authHeader.startsWith('Bearer ')
LacksBearer(h) == h.scheme # "Bearer"

BearerRequired == "Authorization header with Bearer token is required"

Denied(status, msg) == [pass |-> FALSE, status |-> status, message |-> msg,
                        user |-> NoUser]

Granted(u) == [pass |-> TRUE, status |-> 200, message |-> "", user |-> u]

\* variant: the role of the user is not compared
RoleGateAnyRole(us, h, roles, denyMsg) ==
    IF LacksBearer(h) THEN Denied(401, BearerRequired)
    ELSE LET r == verifyTokenAndGetUser(us, h.token) IN
         IF r.error # "" THEN Denied(401, r.error)
         ELSE IF r.user = NoUser THEN Denied(403, denyMsg)
         ELSE Granted(r.user)

\* variant: a rejected token is treated like a token without a User row
RoleGateRejectedAsForbidden(us, h, roles, denyMsg) ==
    IF LacksBearer(h) THEN Denied(401, BearerRequired)
    ELSE LET r == verifyTokenAndGetUser(us, h.token) IN
         IF r.user = NoUser \/ r.user.role \notin roles
         THEN Denied(403, denyMsg)
         ELSE Granted(r.user)

\* the body shared by the role middlewares: 401 without a Bearer header or on
\* a verification error, 403 when no user row or a role outside `roles`
RoleGate(us, h, roles, denyMsg) ==
    IF LacksBearer(h) THEN Denied(401, BearerRequired)
    ELSE LET r == verifyTokenAndGetUser(us, h.token) IN
         IF r.error # "" THEN Denied(401, r.error)
         ELSE IF r.user = NoUser \/ r.user.role \notin roles
         THEN Denied(403, denyMsg)
         ELSE Granted(r.user)

\* verifyAdminAccess of the /api/admin router
AdminVerifyAdminAccess(us, h) ==
    RoleGate(us, h, {"admin"}, "Admin access required")

\* verifyStudentAccess of the /api/student router
verifyStudentAccess(us, h) ==
    RoleGate(us, h, {"student"}, "Student access required")

\* verifyFacultyAccess of the /api/teacher router
TeacherVerifyFacultyAccess(us, h) ==
    RoleGate(us, h, {"faculty"}, "Faculty access required")

\* verifyFacultyAccess of the /api/attendance router
AttendanceVerifyFacultyAccess(us, h) ==
    RoleGate(us, h, {"faculty", "admin"}, "Faculty or Admin access required")

\* verifyFacultyAccess of the /api/subject-enrollment router
EnrollmentVerifyFacultyAccess(us, h) ==
    RoleGate(us, h, {"faculty", "admin"}, "Faculty or Admin access required")

\* verifyAdminAccess of the /api/announcements router
AnnouncementVerifyAdminAccess(us, h) ==
    RoleGate(us, h, {"admin"}, "Admin access required")

\* verifyAdminAccess of the /api/calendar router
CalendarVerifyAdminAccess(us, h) ==
    RoleGate(us, h, {"admin"}, "Admin access required")

\* verifyAuth of the announcement, calendar and subject-enrollment routers:
\* any user row passes, no user row is 401
verifyAuth(us, h) ==
    IF LacksBearer(h) THEN Denied(401, BearerRequired)
    ELSE LET r == verifyTokenAndGetUser(us, h.token) IN
         IF r.error # "" THEN Denied(401, r.error)
         ELSE IF r.user = NoUser THEN Denied(401, "Invalid token")
         ELSE Granted(r.user)

\* ================================================== student attendance summary
\* percentages are kept in hundredths: 8000 is 80.00

\* six months back, in days
SummaryWindowDays == 180

\* Math.round(n / d) for n >= 0 and d > 0
RoundDiv(n, d) == (2 * n + d) \div (2 * d)

\* Attendance.findAll({ studentEmail, subjectId, date between start and end })
RecordsInRange(att, email, sid, start, end) ==
    {a \in att : /\ a.studentEmail = email
                 /\ a.subjectId = sid
                 /\ start <= a.date /\ a.date <= end}

\* variant: every record counts as a lecture
TotalClassesByRecord(records) == Cardinality(records)

\* new Set(records.map(r => r.date)).size
TotalClasses(records) == Cardinality({a.date : a \in records})

\* records.filter(r => r.present).length
PresentCount(records) == Cardinality({a \in records : a.present})

\* totalClasses > 0 ? Math.round((presentCount * 100.0 / totalClasses) * 100)
\*                     / 100.0 : 0.0
Percentage(presentCount, totalClasses) ==
    IF totalClasses > 0 THEN RoundDiv(presentCount * 10000, totalClasses)
    ELSE 0

\* student.enrolledStudents: the subjects whose roster holds the student
EnrolledSubjects(subj, email) ==
    {k \in DOMAIN subj : email \in subj[k].roster}

\* one element of attendanceSummary
SubjectSummary(att, email, sid, start, end) ==
    LET records == RecordsInRange(att, email, sid, start, end) IN
    [totalLectures |-> TotalClasses(records),
     totalPresent  |-> PresentCount(records),
     percentage    |-> Percentage(PresentCount(records),
                                  TotalClasses(records))]

RECURSIVE SumPercentage(_, _)
\* attendanceSummary.reduce((sum, s) => sum + s.percentage, 0)
SumPercentage(summary, ids) ==
    IF ids = {} THEN 0
    ELSE LET k == CHOOSE x \in ids : TRUE IN
         summary[k].percentage + SumPercentage(summary, ids \ {k})

\* Math.round(sum / n * 100) where sum and n are doubles: when the exact mean
\* lies halfway between two hundredths the product falls on either side of
\* the half (66.66 for 33.33 and 100, 8.34 for 0 and 16.67); tieUp tells
\* which
RoundMean(sum, n, tieUp) ==
    IF (2 * sum + n) % (2 * n) = 0 /\ ~tieUp
    THEN RoundDiv(sum, n) - 1
    ELSE RoundDiv(sum, n)

\* variant: present records over lectures, summed over the subjects
OverallPercentageWeighted(summary, tieUp) ==
    LET ids == DOMAIN summary
        P[S \in SUBSET ids] ==
            IF S = {} THEN 0
            ELSE LET k == CHOOSE x \in S : TRUE IN
                 summary[k].totalPresent + P[S \ {k}]
        T[S \in SUBSET ids] ==
            IF S = {} THEN 0
            ELSE LET k == CHOOSE x \in S : TRUE IN
                 summary[k].totalLectures + T[S \ {k}]
    IN  IF T[ids] > 0 THEN RoundDiv(P[ids] * 10000, T[ids]) ELSE 0

\* attendanceSummary.length > 0 ? Math.round(sum / length * 100) / 100.0 : 0.0
OverallPercentage(summary, tieUp) ==
    IF Cardinality(DOMAIN summary) > 0
    THEN RoundMean(SumPercentage(summary, DOMAIN summary),
                   Cardinality(DOMAIN summary), tieUp)
    ELSE 0

\* the response body of GET /attendance-summary/:email
AttendanceSummary(att, subj, email, startDate, endDate, tieUp) ==
    LET start == IF startDate = NoDate THEN Today - SummaryWindowDays
                 ELSE startDate
        end   == IF endDate = NoDate THEN Today ELSE endDate
        summary == [k \in EnrolledSubjects(subj, email) |->
                       SubjectSummary(att, email, k, start, end)]
    IN  [startDate |-> start, endDate |-> end,
         overallPercentage |-> OverallPercentage(summary, tieUp),
         subjects |-> summary]

\* ================================================================ HTTP routes

\* a response, with the Authorization header and the email parameter of the
\* request it answers
Response(route, h, email, status, msg, handled, body) ==
    [route |-> route, header |-> h, email |-> email, status |-> status,
     message |-> msg, handled |-> handled, body |-> body]

\* a request that ends in the router: the response is sent, the store is
\* not written
Respond(route, h, email, status, msg, handled, body) ==
    /\ resp' = Response(route, h, email, status, msg, handled, body)
    /\ nCalls' = nCalls + 1
    /\ UNCHANGED <<storeVars, bulk, last, users, accounts, images, announcements,
                   nextAnnouncementId, calendars, nextCalendarId>>

Refuse(route, h, email, g) ==
    Respond(route, h, email, g.status, g.message, FALSE, NoBody)

CanRequest == NoneInFlight /\ nCalls < MaxRequests

\* ---------------------------------------------------------- /api/student
\* variant: the path email is not compared with the caller's
OwnResourceAny(user, email) == TRUE

\* req.user.email !== email is answered 403
OwnResource(user, email) == user.email = email

StudentRoute(route, h, email, found, body) ==
    LET g == verifyStudentAccess(users, h) IN
    IF ~g.pass THEN Refuse(route, h, email, g)
    ELSE IF ~OwnResource(g.user, email)
    THEN Respond(route, h, email, 403, "Access denied", TRUE, NoBody)
    ELSE IF ~found
    THEN Respond(route, h, email, 404, "Student not found", TRUE, NoBody)
    ELSE Respond(route, h, email, 200, "", TRUE, body)

\* GET /profile/:email
StudentGetProfile(h, email) ==
    /\ CanRequest
    /\ StudentRoute("GET /student/profile", h, email, email \in students,
                    [owner |-> email, kind |-> "profile"])

\* GET /subjects/:email
StudentGetSubjects(h, email) ==
    /\ CanRequest
    /\ StudentRoute("GET /student/subjects", h, email, email \in students,
                    [owner |-> email, kind |-> "subjects",
                     subjects |-> EnrolledSubjects(subjects, email)])

\* GET /attendance-summary/:email?startDate&endDate
StudentAttendanceSummaryHandler(h, email, startDate, endDate, tieUp) ==
    LET route == "GET /student/attendance-summary"
        g == verifyStudentAccess(users, h) IN
       IF ~g.pass THEN Refuse(route, h, email, g)
       ELSE IF ~OwnResource(g.user, email)
       THEN Respond(route, h, email, 403, "Access denied", TRUE, NoBody)
       ELSE IF email \notin students
       THEN Respond(route, h, email, 404, "Student not found", TRUE, NoBody)
       ELSE IF \E k \in EnrolledSubjects(subjects, email) :
                  subjects[k].facultyEmail \notin faculty
       THEN \* subject.faculty.name of a subject without its faculty row
            Respond(route, h, email, 500,
                    "Cannot read properties of null", TRUE, NoBody)
       ELSE Respond(route, h, email, 200, "", TRUE,
                    [owner |-> email, kind |-> "summary",
                     summary |-> AttendanceSummary(attendance, subjects,
                                                   email, startDate, endDate,
                                                   tieUp)])

StudentGetAttendanceSummary(h, email, startDate, endDate, tieUp) ==
    /\ CanRequest
    /\ StudentAttendanceSummaryHandler(h, email, startDate, endDate, tieUp)

\* GET /attendance/:email/:subjectId
StudentGetAttendance(h, email, sid) ==
    /\ CanRequest
    /\ LET route == "GET /student/attendance"
           g == verifyStudentAccess(users, h) IN
       IF ~g.pass THEN Refuse(route, h, email, g)
       ELSE IF ~OwnResource(g.user, email)
       THEN Respond(route, h, email, 403, "Access denied", TRUE, NoBody)
       ELSE IF email \notin students
                 \/ sid \notin EnrolledSubjects(subjects, email)
       THEN Respond(route, h, email, 403, "Student is not enrolled in this subject",
                    TRUE, NoBody)
       ELSE Respond(route, h, email, 200, "", TRUE,
                    [owner |-> email, kind |-> "attendance",
                     records |-> {a \in attendance :
                                    /\ a.studentEmail = email
                                    /\ a.subjectId = sid}])

\* GET /profile-image/:email
StudentGetProfileImage(h, email) ==
    /\ CanRequest
    /\ LET route == "GET /student/profile-image"
           g == verifyStudentAccess(users, h) IN
       IF ~g.pass THEN Refuse(route, h, email, g)
       ELSE IF ~OwnResource(g.user, email)
       THEN Respond(route, h, email, 403, "Access denied", TRUE, NoBody)
       ELSE IF email \notin students
       THEN Respond(route, h, email, 404, "Student not found", TRUE, NoBody)
       ELSE IF email \notin images
       THEN Respond(route, h, email, 404, "No profile image found", TRUE, NoBody)
       ELSE Respond(route, h, email, 200, "", TRUE, [owner |-> email, kind |-> "image"])

\* ------------------------------------------------------------ /api/admin
\* GET /students
AdminGetStudents(h) ==
    /\ CanRequest
    /\ LET route == "GET /admin/students"
           g == AdminVerifyAdminAccess(users, h) IN
       IF ~g.pass THEN Refuse(route, h, Null, g)
       ELSE Respond(route, h, Null, 200, "", TRUE,
                    [owner |-> Null, kind |-> "students", rows |-> students])

\* ---------------------------------------------------------- /api/teacher
Malformed == "malformed"       \* a string the email pattern rejects

\* GET /profile/:email
TeacherGetProfile(h, email) ==
    /\ CanRequest
    /\ LET route == "GET /teacher/profile"
           g == TeacherVerifyFacultyAccess(users, h) IN
       IF ~g.pass THEN Refuse(route, h, email, g)
       ELSE IF email = Malformed
       THEN Respond(route, h, email, 400, "Invalid email format", TRUE, NoBody)
       ELSE IF g.user.email # email
       THEN Respond(route, h, email, 403, "Access denied", TRUE, NoBody)
       ELSE IF email \notin faculty
       THEN Respond(route, h, email, 404, "Faculty not found", TRUE, NoBody)
       ELSE Respond(route, h, email, 200, "", TRUE, [owner |-> email, kind |-> "faculty"])

\* ---------------------------------------------------- /api/announcements
\* POST /
AnnouncementPost(h, hasMessage) ==
    /\ CanRequest
    /\ LET route == "POST /announcements"
           g == AnnouncementVerifyAdminAccess(users, h) IN
       IF ~g.pass THEN Refuse(route, h, Null, g)
       ELSE IF ~hasMessage
       THEN Respond(route, h, Null, 400, "Message is required", TRUE, NoBody)
       ELSE /\ announcements' = announcements \cup {nextAnnouncementId}
            /\ nextAnnouncementId' = nextAnnouncementId + 1
            /\ resp' = Response(route, h, Null, 201, "Announcement created successfully",
                                TRUE, [owner |-> Null, kind |-> "announcement",
                                       id |-> nextAnnouncementId])
            /\ nCalls' = nCalls + 1
            /\ UNCHANGED <<storeVars, bulk, last, users, accounts, images, calendars,
                           nextCalendarId>>

\* GET /
AnnouncementGetAll(h) ==
    /\ CanRequest
    /\ LET route == "GET /announcements"
           g == verifyAuth(users, h) IN
       IF ~g.pass THEN Refuse(route, h, Null, g)
       ELSE Respond(route, h, Null, 200, "", TRUE,
                    [owner |-> Null, kind |-> "announcements",
                     rows |-> announcements])

\* --------------------------------------------------------- /api/calendar
\* POST /upload
CalendarUpload(h, hasFile, hasTitle) ==
    /\ CanRequest
    /\ LET route == "POST /calendar/upload"
           g == CalendarVerifyAdminAccess(users, h) IN
       IF ~g.pass THEN Refuse(route, h, Null, g)
       ELSE IF ~hasFile
       THEN Respond(route, h, Null, 400, "File is required", TRUE, NoBody)
       ELSE IF ~hasTitle
       THEN Respond(route, h, Null, 400, "Title is required", TRUE, NoBody)
       ELSE /\ calendars' = calendars \cup {nextCalendarId}
            /\ nextCalendarId' = nextCalendarId + 1
            /\ resp' = Response(route, h, Null, 201, "Calendar uploaded successfully",
                                TRUE, [owner |-> Null, kind |-> "calendar",
                                       id |-> nextCalendarId])
            /\ nCalls' = nCalls + 1
            /\ UNCHANGED <<storeVars, bulk, last, users, accounts, images,
                           announcements, nextAnnouncementId>>

\* GET /
CalendarGetAll(h) ==
    /\ CanRequest
    /\ LET route == "GET /calendar"
           g == verifyAuth(users, h) IN
       IF ~g.pass THEN Refuse(route, h, Null, g)
       ELSE Respond(route, h, Null, 200, "", TRUE,
                    [owner |-> Null, kind |-> "calendars", rows |-> calendars])

\* DELETE /:id
CalendarDelete(h, id) ==
    /\ CanRequest
    /\ LET route == "DELETE /calendar"
           g == CalendarVerifyAdminAccess(users, h) IN
       IF ~g.pass THEN Refuse(route, h, Null, g)
       ELSE IF id \notin calendars
       THEN Respond(route, h, Null, 404, "Calendar not found", TRUE, NoBody)
       ELSE /\ calendars' = calendars \ {id}
            /\ resp' = Response(route, h, Null, 200, "Calendar deleted successfully",
                                TRUE, NoBody)
            /\ nCalls' = nCalls + 1
            /\ UNCHANGED <<storeVars, bulk, last, users, accounts, images,
                           announcements, nextAnnouncementId, nextCalendarId>>

\* ------------------------------------------------------- /api/attendance
BadDate == -1                 \* a date string that is not YYYY-MM-DD

\* POST /bulk up to the call of the service; the response follows when the
\* service returns or throws
AttendanceBulkPost(p, h, fEmail, sid, d, n) ==
    /\ CanRequest
    /\ LET route == "POST /attendance/bulk"
           g == AttendanceVerifyFacultyAccess(users, h) IN
       IF ~g.pass THEN Refuse(route, h, fEmail, g)
       ELSE IF fEmail = Null \/ sid = 0
       THEN Respond(route, h, fEmail, 400,
              "Faculty email, subject ID, and student attendances are required",
              TRUE, NoBody)
       ELSE IF n = 0
       THEN Respond(route, h, fEmail, 400,
              "Student attendances must be a non-empty array", TRUE, NoBody)
       ELSE IF fEmail = Malformed
       THEN Respond(route, h, fEmail, 400, "Invalid faculty email format", TRUE, NoBody)
       ELSE IF d = BadDate
       THEN Respond(route, h, fEmail, 400, "Date must be in YYYY-MM-DD format", TRUE,
                    NoBody)
       ELSE /\ BulkStart(p, fEmail, sid, d, n)
            /\ resp' = Response(route, h, fEmail, 0, "", TRUE, NoBody)
            /\ UNCHANGED <<users, accounts, images, announcements, nextAnnouncementId,
                           calendars, nextCalendarId>>

\* res.json({ status: 'success', ... }) or the catch block's 400
BulkResponse(pending, l) ==
    IF l.ok
    THEN [pending EXCEPT !.status = 200,
                         !.message = "Bulk attendance marked successfully",
                         !.body = [owner |-> Null, kind |-> "bulk"]]
    ELSE [pending EXCEPT !.status = 400, !.message = l.message]

\* one step of the service call made by POST /bulk
AttendanceBulkStep(p) ==
    /\ \/ BulkFindFaculty(p)
       \/ BulkFindSubject(p)
       \/ BulkFindStudent(p)
       \/ BulkCheckEnrolled(p)
       \/ BulkFindAttendance(p)
       \/ BulkWrite(p)
    /\ resp' = IF nCalls' # nCalls THEN BulkResponse(resp, last') ELSE resp
    /\ UNCHANGED <<users, accounts, images, announcements, nextAnnouncementId,
                   calendars, nextCalendarId>>

\* ----------------------------------------------- /api/subject-enrollment
\* GET /
EnrollmentGetAll(h) ==
    /\ CanRequest
    /\ LET route == "GET /subject-enrollment"
           g == verifyAuth(users, h) IN
       IF ~g.pass THEN Refuse(route, h, Null, g)
       ELSE Respond(route, h, Null, 200, "", TRUE,
                    [owner |-> Null, kind |-> "enrollments",
                     rows |-> DOMAIN subjects])

\* POST /create-specific; fieldsOk: subjectName, subjectCode and credits
\* are present and valid
EnrollmentCreateSpecificPost(h, emailId, studentEmails, fieldsOk) ==
    /\ CanRequest
    /\ LET route == "POST /subject-enrollment/create-specific"
           g == EnrollmentVerifyFacultyAccess(users, h) IN
       IF ~g.pass THEN Refuse(route, h, emailId, g)
       ELSE IF emailId = Null
       THEN Respond(route, h, emailId, 400, "Required fields are missing", TRUE, NoBody)
       ELSE IF emailId = Malformed
       THEN Respond(route, h, emailId, 400, "Invalid faculty email format", TRUE, NoBody)
       ELSE IF studentEmails = <<>>
       THEN Respond(route, h, emailId, 400, "At least one student email is required",
                    TRUE, NoBody)
       ELSE IF ~fieldsOk
       THEN Respond(route, h, emailId, 400, "Invalid subject fields", TRUE, NoBody)
       ELSE /\ createEnrollmentForSpecificStudents(
                  [emailId |-> emailId, studentEmails |-> studentEmails])
            /\ resp' = IF last'.ok
                       THEN Response(route, h, emailId, 201,
                              "Enrollment created for specific students successfully",
                              TRUE, [owner |-> Null, kind |-> "enrollment"])
                       ELSE Response(route, h, emailId, 500, last'.message, TRUE, NoBody)
            /\ UNCHANGED <<users, accounts, images, announcements, nextAnnouncementId,
                           calendars, nextCalendarId>>

\* ------------------------------------------------- the API, one request
\* at a time
HttpNext ==
    \/ \E h \in Headers : AdminGetStudents(h)
    \/ \E h \in Headers, e \in StudentEmails : StudentGetProfile(h, e)
    \/ \E h \in Headers, e \in StudentEmails : StudentGetSubjects(h, e)
    \/ \E h \in Headers, e \in StudentEmails, a, b \in Dates \cup {NoDate},
          tieUp \in BOOLEAN :
          StudentGetAttendanceSummary(h, e, a, b, tieUp)
    \/ \E h \in Headers, e \in StudentEmails, sid \in SubjectIds :
          StudentGetAttendance(h, e, sid)
    \/ \E h \in Headers, e \in StudentEmails : StudentGetProfileImage(h, e)
    \/ \E h \in Headers, e \in FacultyEmails \cup {Malformed} :
          TeacherGetProfile(h, e)
    \/ \E h \in Headers, m \in BOOLEAN : AnnouncementPost(h, m)
    \/ \E h \in Headers : AnnouncementGetAll(h)
    \/ \E h \in Headers, f, t \in BOOLEAN : CalendarUpload(h, f, t)
    \/ \E h \in Headers : CalendarGetAll(h)
    \/ \E h \in Headers, id \in 1..MaxRequests : CalendarDelete(h, id)
    \/ \E p \in SeqProcs, h \in Headers,
          f \in FacultyEmails \cup {Null, Malformed},
          sid \in SubjectIds \cup {0},
          d \in Dates \cup {NoDate, BadDate}, n \in 0..MaxTuples :
          AttendanceBulkPost(p, h, f, sid, d, n)
    \/ \E p \in SeqProcs : AttendanceBulkStep(p)
    \/ \E h \in Headers,
          f \in FacultyEmails \cup {Null, Malformed},
          l \in SeqsUpTo(StudentEmails, MaxTuples), ok \in BOOLEAN :
          EnrollmentCreateSpecificPost(h, f, l, ok)
    \/ \E h \in Headers : EnrollmentGetAll(h)

SpecHttp == Init /\ [][HttpNext]_vars

\* ------------------------------------------------------ subject reports
\* AttendanceService.getSubjectAttendanceStats(subjectId): the possible
\* attendances are totalClasses * attendances.length, the number of class
\* dates times the number of records of the subject
getSubjectAttendanceStats(att, subj, sid) ==
    LET attendances == {a \in att : a.subjectId = sid}
        totalClasses == Cardinality({a.date : a \in attendances})
        totalPresent == Cardinality({a \in attendances : a.present})
        totalPossibleAttendances == totalClasses * Cardinality(attendances)
    IN  [totalClasses |-> totalClasses, totalPresent |-> totalPresent,
         attendancePercentage |->
            IF totalPossibleAttendances > 0
            THEN RoundDiv(totalPresent * 10000, totalPossibleAttendances)
            ELSE 0]

\* GET /api/attendance/stats/subject/:subjectId
AttendanceGetStats(h, sid) ==
    LET route == "GET /attendance/stats/subject"
        g == AttendanceVerifyFacultyAccess(users, h) IN
    IF ~g.pass THEN Refuse(route, h, Null, g)
    ELSE Respond(route, h, Null, 200, "", TRUE,
                 [owner |-> Null, kind |-> "stats", subjectId |-> sid,
                  stats |-> getSubjectAttendanceStats(attendance, subjects,
                                                      sid)])

\* one element of stats of GET /api/teacher/attendance-stats/:email
TeacherSubjectStats(att, subj, k) ==
    LET attendance_ == {a \in att : a.subjectId = k}
        totalClasses == Cardinality({a.date : a \in attendance_})
        totalPresent == Cardinality({a \in attendance_ : a.present})
        totalPossible == totalClasses * Cardinality(subj[k].roster)
    IN  [totalStudents |-> Cardinality(subj[k].roster),
         totalClasses |-> totalClasses, totalPresent |-> totalPresent,
         totalPossible |-> totalPossible,
         percentage |-> IF totalPossible > 0
                        THEN RoundDiv(totalPresent * 10000, totalPossible)
                        ELSE 0]

\* GET /api/teacher/attendance-stats/:email
TeacherGetAttendanceStats(h, email) ==
    LET route == "GET /teacher/attendance-stats"
        g == TeacherVerifyFacultyAccess(users, h) IN
    IF ~g.pass THEN Refuse(route, h, email, g)
    ELSE IF ~OwnResource(g.user, email)
    THEN Respond(route, h, email, 403, "Access denied", TRUE, NoBody)
    ELSE Respond(route, h, email, 200, "", TRUE,
                 [owner |-> email, kind |-> "teacher-stats",
                  stats |-> [k \in {x \in DOMAIN subjects :
                                      subjects[x].facultyEmail = email} |->
                               TeacherSubjectStats(attendance, subjects, k)]])

\* AttendanceService.findAttendance(email, subjectId, date) for each roster
\* member: findOne returns null or one of the matching rows
FindAttendancePicks(att, roster, sid, d) ==
    {pick \in [roster -> {NoRow} \cup {a.id : a \in att}] :
        \A e \in roster :
           IF AttendanceFor(att, e, sid, d) = {} THEN pick[e] = NoRow
           ELSE pick[e] \in {a.id : a \in AttendanceFor(att, e, sid, d)}}

\* variant: one entry per stored record of the day
AttendanceDTOsByRecord(att, roster, sid, d, pick) ==
    [e \in {x \in roster : pick[x] # NoRow} |->
        LET existing == CHOOSE a \in att : a.id = pick[e] IN
        [id |-> existing.id, present |-> existing.present,
         remarks |-> existing.remarks]]

\* attendanceDTOs: one element per student of subject.enrolledStudents
AttendanceDTOs(att, roster, sid, d, pick) ==
    [e \in roster |->
        IF pick[e] = NoRow
        THEN [id |-> NoRow, present |-> FALSE, remarks |-> Null]
        ELSE LET existing == CHOOSE a \in att : a.id = pick[e] IN
             [id |-> existing.id, present |-> existing.present,
              remarks |-> existing.remarks]]

\* GET /api/attendance/subject/:subjectId/date/:date
AttendanceGetBySubjectAndDate(h, sid, d) ==
    LET route == "GET /attendance/subject/date"
        g == AttendanceVerifyFacultyAccess(users, h)
        subject == FindSubject(subjects, faculty, sid) IN
    IF ~g.pass THEN Refuse(route, h, Null, g)
    ELSE IF sid = 0
    THEN Respond(route, h, Null, 400, "Subject ID must be a valid number",
                 TRUE, NoBody)
    ELSE IF d = BadDate
    THEN Respond(route, h, Null, 400, "Date must be in YYYY-MM-DD format",
                 TRUE, NoBody)
    ELSE IF subject = NoSubject
    THEN Respond(route, h, Null, 404, "Subject not found", TRUE, NoBody)
    ELSE IF subject.faculty = Null /\ subjects[sid].roster # {}
    THEN Respond(route, h, Null, 400, "TypeError", TRUE, NoBody)
    ELSE \E pick \in FindAttendancePicks(attendance, subjects[sid].roster,
                                         sid, d) :
            Respond(route, h, Null, 200, "", TRUE,
                    [owner |-> Null, kind |-> "by-date", subjectId |-> sid,
                     date |-> d,
                     attendance |-> AttendanceDTOs(attendance,
                                                   subjects[sid].roster,
                                                   sid, d, pick)])

\* a report is asked for once the calls of the behaviour are made
CanReport == NoneInFlight /\ nCalls = MaxCalls

ReportHeaders == {x \in Headers : x.token \in {"tokF1", "tokS1"}}

\* the services called one at a time, then one report
ReportsNext ==
    \/ Next
    \/ \E h \in ReportHeaders, sid \in SubjectIds :
          CanReport /\ AttendanceGetStats(h, sid)
    \/ \E h \in ReportHeaders, e \in FacultyEmails :
          CanReport /\ TeacherGetAttendanceStats(h, e)
    \/ \E h \in ReportHeaders, sid \in SubjectIds \cup {0},
          d \in Dates \cup {BadDate} :
          CanReport /\ AttendanceGetBySubjectAndDate(h, sid, d)
    \/ \E h \in ReportHeaders, e \in StudentEmails,
          a, b \in Dates \cup {NoDate}, tieUp \in BOOLEAN :
          CanReport
          /\ StudentAttendanceSummaryHandler(h, e, a, b, tieUp)

SpecReports == Init /\ [][ReportsNext]_vars

\* ================================================== concurrent requests
\* Node serves requests concurrently: a second markBulkAttendance call can
\* start, and take its steps, between any two awaits of the first.

\* the store after seedData: one subject, taught by f1
SeededSubjects == <<[facultyEmail |-> "f1", roster |-> {"s1"}]>>

InitSeeded ==
    /\ faculty = {"f1", "f2"}
    /\ students = {"s1", "s2"}
    /\ subjects = SeededSubjects
    /\ nextSubjectId = 2
    /\ attendance = {}
    /\ nextAttendanceId = 1
    /\ bulk = [p \in Procs |-> IdleSlot]
    /\ last = NoCall
    /\ nCalls = 0
    /\ users = SeedUsers
    /\ accounts = {u.email : u \in SeedUsers}
    /\ images = {"s1"}
    /\ announcements = {}
    /\ nextAnnouncementId = 1
    /\ calendars = {}
    /\ nextCalendarId = 1
    /\ resp = NoResponse

\* the calls in progress
InFlight == {p \in Procs : bulk[p].pc # "idle"}

\* a call made whatever else is in progress
BulkStartConcurrent(p, fEmail, sid, d, n) ==
    /\ bulk[p].pc = "idle"
    /\ nCalls + Cardinality(InFlight) < MaxConcurrentCalls
    /\ BulkEnter(p, fEmail, sid, d, n)

ConcurrentNext ==
    \/ \E p \in Procs, f \in FacultyEmails, sid \in SubjectIds,
          d \in Dates \cup {NoDate}, n \in 1..MaxTuples :
          BulkStartConcurrent(p, f, sid, d, n) /\ UNCHANGED httpVars
    \/ \E p \in Procs : BulkFindFaculty(p) /\ UNCHANGED httpVars
    \/ \E p \in Procs : BulkFindSubject(p) /\ UNCHANGED httpVars
    \/ \E p \in Procs : BulkFindStudent(p) /\ UNCHANGED httpVars
    \/ \E p \in Procs : BulkCheckEnrolled(p) /\ UNCHANGED httpVars
    \/ \E p \in Procs : BulkFindAttendance(p) /\ UNCHANGED httpVars
    \/ \E p \in Procs : BulkWrite(p) /\ UNCHANGED httpVars

SpecConcurrent == InitSeeded /\ [][ConcurrentNext]_vars

\* a call admitted whatever else is in progress
RaceCall == nCalls + Cardinality(InFlight) < MaxConcurrentCalls

\* ============================================ administration of the store
\* The tables are MySQL (InnoDB) tables made by sequelize.sync from the
\* models: the `references` of a column is a foreign key, `unique` a unique
\* index.

\* userRecord.uid of an account made by auth.createUser: always a new one
ProvisionedUid(email) ==
    CASE email = "s1" -> "nS1" [] email = "s2" -> "nS2"
      [] email = "s3" -> "nS3" [] email = "f1" -> "nF1"
      [] email = "f2" -> "nF2" [] OTHER -> "nF3"

\* UserService.createUser(email, password, name, role, univId); authOk is
\* the outcome of auth.createUser.  An account found for the email is
\* deleted with its User row before the new one is made.
createUser(us, acc, email, role, authOk) ==
    LET existing == email \in acc
        acc1 == IF existing THEN acc \ {email} ELSE acc
        us1  == IF existing THEN {u \in us : u.email # email} ELSE us
    IN  IF ~authOk
        THEN [ok |-> FALSE, users |-> us1, accounts |-> acc1]
        ELSE IF \E u \in us1 : u.email = email
        THEN [ok |-> FALSE, users |-> us1, accounts |-> acc1 \cup {email}]
        ELSE [ok |-> TRUE,
              users |-> us1 \cup {[firebaseUid |-> ProvisionedUid(email),
                                   email |-> email, role |-> role]},
              accounts |-> acc1 \cup {email}]

\* variant: facultyEmail is a plain column
ForeignKeyUnchecked(fac, email) == TRUE

\* facultyEmail REFERENCES faculty (email): the row is accepted only while
\* a Faculty row has that email
ForeignKeyHolds(fac, email) == email \in fac

\* every faculty_email of subject_enrollments and attendance is accepted
FacultyKeysHold(fac, subj, att) ==
    /\ \A k \in DOMAIN subj : ForeignKeyHolds(fac, subj[k].facultyEmail)
    /\ \A a \in att : ForeignKeyHolds(fac, a.facultyEmail)

\* the rows left when the subjects `ids` are deleted
WithoutSubjects(subj, ids) == [k \in DOMAIN subj \ ids |-> subj[k]]

AdminCall == NoneInFlight /\ nCalls < MaxCalls

adminFrame == <<nextAttendanceId, bulk, announcements, nextAnnouncementId,
                calendars, nextCalendarId>>

createEnrollmentForAllStudents(emailId) ==
    /\ AdminCall
    /\ nextSubjectId <= MaxSubjects
    /\ IF emailId \notin faculty
       THEN /\ Done("createAll", FALSE, "Faculty not found")
            /\ UNCHANGED <<subjects, nextSubjectId>>
       ELSE IF students = {}
       THEN /\ Done("createAll", FALSE,
                    "No students available for enrollment")
            /\ UNCHANGED <<subjects, nextSubjectId>>
       ELSE /\ subjects' = WithEnrollment(subjects, nextSubjectId, emailId,
                                          students)
            /\ nextSubjectId' = nextSubjectId + 1
            /\ Done("createAll", TRUE, "")
    /\ UNCHANGED <<faculty, students, attendance, users, accounts, images,
                   adminFrame>>

\* SubjectEnrollment.update(updateData, { where: { id } }); facultyEmail is
\* the facultyEmail of updateData, Null when it has none
updateEnrollment(id, facultyEmail) ==
    /\ AdminCall
    /\ IF id \notin DOMAIN subjects
       THEN /\ Done("updateEnrollment", FALSE, "")
            /\ UNCHANGED subjects
       ELSE IF facultyEmail = Null
       THEN /\ Done("updateEnrollment", TRUE, "")
            /\ UNCHANGED subjects
       ELSE IF ~ForeignKeyHolds(faculty, facultyEmail)
       THEN /\ Done("updateEnrollment", FALSE,
                    "a foreign key constraint fails")
            /\ UNCHANGED subjects
       ELSE /\ subjects' = [subjects EXCEPT ![id].facultyEmail = facultyEmail]
            /\ Done("updateEnrollment", TRUE, "")
    /\ UNCHANGED <<faculty, students, nextSubjectId, attendance, users,
                   accounts, images, adminFrame>>

\* SubjectEnrollment.destroy({ where: { id } }); cascade: the foreign key of
\* attendance.subject_id deletes the referencing rows (otherwise it rejects
\* the delete); the roster links are deleted with their subject
DeleteEnrollmentCall(id, cascade) ==
    /\ IF id \notin DOMAIN subjects
       THEN /\ Done("deleteEnrollment", FALSE, "")
            /\ UNCHANGED <<subjects, attendance>>
       ELSE IF (\E a \in attendance : a.subjectId = id) /\ ~cascade
       THEN /\ Done("deleteEnrollment", FALSE,
                    "a foreign key constraint fails")
            /\ UNCHANGED <<subjects, attendance>>
       ELSE /\ subjects' = WithoutSubjects(subjects, {id})
            /\ attendance' = {a \in attendance : a.subjectId # id}
            /\ Done("deleteEnrollment", TRUE, "")
    /\ UNCHANGED <<faculty, students, nextSubjectId, users, accounts, images,
                   adminFrame>>

\* a call made while no other call is in progress
deleteEnrollment(id, cascade) ==
    /\ AdminCall
    /\ DeleteEnrollmentCall(id, cascade)

\* variant: the row stays
DestroySkipped(rows, email) == rows

\* savedStudent.destroy(), student.destroy(), faculty.destroy()
Destroy(rows, email) == rows \ {email}

\* AdminService.uploadStudentDetail(studentData)
uploadStudentDetail(email, authOk) ==
    /\ AdminCall
    /\ LET made == createUser(users, accounts, email, "student", authOk) IN
       IF email \in students
       THEN /\ Done("uploadStudent", FALSE, "Email already exists")
            /\ UNCHANGED <<students, users, accounts>>
       ELSE /\ users' = made.users
            /\ accounts' = made.accounts
            /\ IF made.ok
               THEN /\ students' = students \cup {email}
                    /\ Done("uploadStudent", TRUE, "")
               ELSE /\ students' = Destroy(students \cup {email}, email)
                    /\ Done("uploadStudent", FALSE,
                            "Failed to create Firebase user")
    /\ UNCHANGED <<faculty, subjects, nextSubjectId, attendance, images,
                   adminFrame>>

RECURSIVE ProvisionAll(_, _, _, _, _)
\* the loop over savedStudents: createUser for each in turn, until one
\* throws; failAt is the position whose auth.createUser fails (0: none)
ProvisionAll(us, acc, emails, i, failAt) ==
    IF i > Len(emails) THEN [ok |-> TRUE, users |-> us, accounts |-> acc]
    ELSE LET made == createUser(us, acc, emails[i], "student", i # failAt)
         IN  IF made.ok
             THEN ProvisionAll(made.users, made.accounts, emails, i + 1,
                               failAt)
             ELSE made

\* AdminService.uploadDetailsOfStudentsBulk(filePath); emails are the
\* emailId column of the CSV rows.  Student.bulkCreate is one INSERT: a
\* repeated or taken email fails it as a whole.
uploadDetailsOfStudentsBulk(emails, failAt) ==
    /\ AdminCall
    /\ LET made == ProvisionAll(users, accounts, emails, 1, failAt) IN
       IF \/ Cardinality(Range(emails)) # Len(emails)
          \/ Range(emails) \cap students # {}
       THEN /\ Done("uploadBulk", FALSE, "Failed to upload students")
            /\ UNCHANGED <<students, users, accounts>>
       ELSE /\ students' = students \cup Range(emails)
            /\ users' = made.users
            /\ accounts' = made.accounts
            /\ Done("uploadBulk", made.ok,
                    IF made.ok THEN "" ELSE "Failed to upload students")
    /\ UNCHANGED <<faculty, subjects, nextSubjectId, attendance, images,
                   adminFrame>>

\* AdminService.uploadFacultyDetail(facultyData)
uploadFacultyDetail(email, authOk) ==
    /\ AdminCall
    /\ LET made == createUser(users, accounts, email, "faculty", authOk) IN
       IF email \in faculty
       THEN /\ Done("uploadFaculty", FALSE, "email must be unique")
            /\ UNCHANGED <<faculty, users, accounts>>
       ELSE /\ faculty' = faculty \cup {email}
            /\ users' = made.users
            /\ accounts' = made.accounts
            /\ Done("uploadFaculty", made.ok,
                    IF made.ok THEN "" ELSE "Failed to create user")
    /\ UNCHANGED <<students, subjects, nextSubjectId, attendance, images,
                   adminFrame>>

\* AdminService.updateFaculty(email, updateData); newEmail is the email of
\* updateData, Null when it has none; cascade: the foreign keys follow the
\* new email (otherwise they reject the update of a referenced row)
updateFaculty(email, newEmail, cascade) ==
    /\ AdminCall
    /\ LET renamed == (faculty \ {email}) \cup {newEmail} IN
       IF email \notin faculty
       THEN /\ Done("updateFaculty", FALSE, "")
            /\ UNCHANGED <<faculty, subjects, attendance>>
       ELSE IF newEmail = Null \/ newEmail = email
       THEN /\ Done("updateFaculty", TRUE, "")
            /\ UNCHANGED <<faculty, subjects, attendance>>
       ELSE IF newEmail \in faculty
       THEN /\ Done("updateFaculty", FALSE, "email must be unique")
            /\ UNCHANGED <<faculty, subjects, attendance>>
       ELSE IF FacultyKeysHold(renamed, subjects, attendance)
       THEN /\ faculty' = renamed
            /\ Done("updateFaculty", TRUE, "")
            /\ UNCHANGED <<subjects, attendance>>
       ELSE IF ~cascade
       THEN /\ Done("updateFaculty", FALSE, "a foreign key constraint fails")
            /\ UNCHANGED <<faculty, subjects, attendance>>
       ELSE /\ faculty' = renamed
            /\ subjects' =
                  [k \in DOMAIN subjects |->
                     IF subjects[k].facultyEmail = email
                     THEN [subjects[k] EXCEPT !.facultyEmail = newEmail]
                     ELSE subjects[k]]
            /\ attendance' =
                  {IF a.facultyEmail = email
                   THEN [a EXCEPT !.facultyEmail = newEmail] ELSE a :
                   a \in attendance}
            /\ Done("updateFaculty", TRUE, "")
    /\ UNCHANGED <<students, nextSubjectId, users, accounts, images,
                   adminFrame>>

\* AdminService.deleteFaculty(email); cascade: the foreign keys delete the
\* referencing rows (otherwise they reject the delete of a referenced row)
deleteFaculty(email, cascade) ==
    /\ AdminCall
    /\ LET taught == {k \in DOMAIN subjects :
                        subjects[k].facultyEmail = email} IN
       IF email \notin faculty
       THEN /\ Done("deleteFaculty", FALSE, "")
            /\ UNCHANGED <<faculty, subjects, attendance>>
       ELSE IF FacultyKeysHold(faculty \ {email}, subjects, attendance)
       THEN /\ faculty' = Destroy(faculty, email)
            /\ Done("deleteFaculty", TRUE, "")
            /\ UNCHANGED <<subjects, attendance>>
       ELSE IF ~cascade
       THEN /\ Done("deleteFaculty", FALSE, "a foreign key constraint fails")
            /\ UNCHANGED <<faculty, subjects, attendance>>
       ELSE /\ faculty' = Destroy(faculty, email)
            /\ subjects' = WithoutSubjects(subjects, taught)
            /\ attendance' = {a \in attendance :
                                 /\ a.facultyEmail # email
                                 /\ a.subjectId \notin taught}
            /\ Done("deleteFaculty", TRUE, "")
    /\ UNCHANGED <<students, nextSubjectId, users, accounts, images,
                   adminFrame>>

\* AdminService.deleteStudent(rollNo) for the student with that email;
\* cascade: the foreign key of attendance.student_email deletes the
\* referencing rows (otherwise it rejects the delete); the roster links are
\* deleted with their student
deleteStudent(email, cascade) ==
    /\ AdminCall
    /\ IF email \notin students
       THEN /\ Done("deleteStudent", FALSE, "")
            /\ UNCHANGED <<students, subjects, attendance, images>>
       ELSE IF (\E a \in attendance : a.studentEmail = email) /\ ~cascade
       THEN /\ Done("deleteStudent", FALSE, "a foreign key constraint fails")
            /\ UNCHANGED <<students, subjects, attendance, images>>
       ELSE /\ students' = Destroy(students, email)
            /\ images' = images \ {email}
            /\ subjects' = [k \in DOMAIN subjects |->
                              [subjects[k] EXCEPT !.roster = @ \ {email}]]
            /\ attendance' = {a \in attendance : a.studentEmail # email}
            /\ Done("deleteStudent", TRUE, "")
    /\ UNCHANGED <<faculty, nextSubjectId, users, accounts, adminFrame>>

\* POST /api/subject-enrollment/:enrollmentId/add-student
EnrollmentAddStudentPost(h, id, email) ==
    /\ AdminCall
    /\ LET route == "POST /subject-enrollment/add-student"
           g == EnrollmentVerifyFacultyAccess(users, h) IN
       IF ~g.pass THEN Refuse(route, h, email, g)
       ELSE IF id = 0
       THEN Respond(route, h, email, 400, "Valid enrollment ID is required",
                    TRUE, NoBody)
       ELSE IF email = Null
       THEN Respond(route, h, email, 400,
                    "Student email is required and must be a non-empty string",
                    TRUE, NoBody)
       ELSE IF email = Malformed
       THEN Respond(route, h, email, 400, "Invalid student email format",
                    TRUE, NoBody)
       ELSE /\ addStudentToEnrollment(id, email)
            /\ resp' = IF last'.ok
                       THEN Response(route, h, email, 200,
                              "Student added to enrollment successfully",
                              TRUE, [owner |-> Null, kind |-> "roster"])
                       ELSE Response(route, h, email, 404,
                              "Enrollment or student not found", TRUE, NoBody)
            /\ UNCHANGED <<users, accounts, images, announcements,
                           nextAnnouncementId, calendars, nextCalendarId>>

\* DELETE /api/subject-enrollment/:enrollmentId/remove-student
EnrollmentRemoveStudent(h, id, email) ==
    /\ AdminCall
    /\ LET route == "DELETE /subject-enrollment/remove-student"
           g == EnrollmentVerifyFacultyAccess(users, h) IN
       IF ~g.pass THEN Refuse(route, h, email, g)
       ELSE IF email = Null
       THEN Respond(route, h, email, 400, "Student email is required", TRUE,
                    NoBody)
       ELSE /\ removeStudentFromEnrollment(id, email)
            /\ resp' = IF last'.ok
                       THEN Response(route, h, email, 200,
                              "Student removed from enrollment successfully",
                              TRUE, [owner |-> Null, kind |-> "roster"])
                       ELSE Response(route, h, email, 404,
                              "Enrollment or student not found", TRUE, NoBody)
            /\ UNCHANGED <<users, accounts, images, announcements,
                           nextAnnouncementId, calendars, nextCalendarId>>

RosterEmails == StudentEmails \cup {Null, Malformed}

\* variant: every user is sent to the student dashboard
RedirectUrlOfStudents(role) == "/student/dashboard"

\* switch (user.role.toLowerCase()); "" stands for the default case, which
\* throws 'Unknown user role'
RedirectUrl(role) ==
    CASE role = "admin"   -> "/admin/dashboard"
      [] role = "student" -> "/student/dashboard"
      [] role = "faculty" -> "/teacher/dashboard"
      [] OTHER            -> ""

\* POST /api/auth/login; idToken is req.body.idToken, "" when it is absent
AuthLogin(idToken) ==
    /\ AdminCall
    /\ LET route == "POST /auth/login"
           v == verifyTokenAndGetUser(users, idToken) IN
       IF idToken = ""
       THEN Respond(route, NoHeader, Null, 400, "ID token is required", TRUE,
                    NoBody)
       ELSE IF v.error # ""
       THEN Respond(route, NoHeader, Null, 401, v.error, TRUE, NoBody)
       ELSE IF v.user = NoUser
       THEN Respond(route, NoHeader, Null, 401, "User not found in database",
                    TRUE, NoBody)
       ELSE IF RedirectUrl(v.user.role) = ""
       THEN Respond(route, NoHeader, Null, 401, "Unknown user role", TRUE,
                    NoBody)
       ELSE Respond(route, NoHeader, Null, 200, "", TRUE,
                    [owner |-> v.user.email, kind |-> "login",
                     firebaseUid |-> v.user.firebaseUid,
                     role |-> v.user.role, idToken |-> idToken,
                     redirectUrl |-> RedirectUrl(v.user.role)])

\* the services called one at a time by the administration
AdminNext ==
    \/ Next
    \/ \E f \in FacultyEmails :
          createEnrollmentForAllStudents(f) /\ UNCHANGED resp
    \/ \E id \in SubjectIds, f \in FacultyEmails \cup {Null} :
          updateEnrollment(id, f) /\ UNCHANGED resp
    \/ \E id \in SubjectIds, c \in BOOLEAN :
          deleteEnrollment(id, c) /\ UNCHANGED resp
    \/ \E e \in StudentEmails, ok \in BOOLEAN :
          uploadStudentDetail(e, ok) /\ UNCHANGED resp
    \/ \E emails \in SeqsUpTo(StudentEmails, MaxTuples) \ {<<>>} :
          \E failAt \in 0..Len(emails) :
             uploadDetailsOfStudentsBulk(emails, failAt) /\ UNCHANGED resp
    \/ \E e \in FacultyEmails, ok \in BOOLEAN :
          uploadFacultyDetail(e, ok) /\ UNCHANGED resp
    \/ \E e \in FacultyEmails, n \in FacultyEmails \cup {Null},
          c \in BOOLEAN : updateFaculty(e, n, c) /\ UNCHANGED resp
    \/ \E e \in FacultyEmails, c \in BOOLEAN :
          deleteFaculty(e, c) /\ UNCHANGED resp
    \/ \E e \in StudentEmails, c \in BOOLEAN :
          deleteStudent(e, c) /\ UNCHANGED resp
    \/ \E h \in ReportHeaders, id \in SubjectIds \cup {0},
          e \in RosterEmails : EnrollmentAddStudentPost(h, id, e)
    \/ \E h \in ReportHeaders, id \in SubjectIds \cup {0},
          e \in RosterEmails : EnrollmentRemoveStudent(h, id, e)
    \/ \E t \in Tokens \cup {""} : AuthLogin(t)

SpecAdmin == Init /\ [][AdminNext]_vars

\* ------------------------------------ marking while the roster changes
\* one markBulkAttendance call with roster removals and enrollment
\* deletions between its awaits
RaceNext ==
    \/ \E p \in SeqProcs, f \in FacultyEmails, sid \in SubjectIds,
          d \in Dates \cup {NoDate}, n \in 1..MaxTuples :
          BulkStartConcurrent(p, f, sid, d, n) /\ UNCHANGED httpVars
    \/ \E p \in SeqProcs : BulkFindFaculty(p) /\ UNCHANGED httpVars
    \/ \E p \in SeqProcs : BulkFindSubject(p) /\ UNCHANGED httpVars
    \/ \E p \in SeqProcs : BulkFindStudent(p) /\ UNCHANGED httpVars
    \/ \E p \in SeqProcs : BulkCheckEnrolled(p) /\ UNCHANGED httpVars
    \/ \E p \in SeqProcs : BulkFindAttendance(p) /\ UNCHANGED httpVars
    \/ \E p \in SeqProcs : BulkWrite(p) /\ UNCHANGED httpVars
    \/ \E id \in SubjectIds, e \in StudentEmails :
          RaceCall /\ RemoveStudentCall(id, e) /\ UNCHANGED httpVars
    \/ \E id \in SubjectIds, cascade \in BOOLEAN :
          RaceCall /\ DeleteEnrollmentCall(id, cascade) /\ UNCHANGED resp

SpecRace == InitSeeded /\ [][RaceNext]_vars

\* ======================================================== provisioning
\* Strings that the code takes apart are sequences of one-character
\* strings; the domain suffix is one element.

\* names of up to MaxNameLen letters and blanks
Names == SeqsUpTo({"a", "b", " "}, MaxNameLen) \ {<<>>}

ContactNos == {0, 7, 45, 123, 9876}

\* contactNo || 1234567890
DefaultContactNo == 1234567890

\* the values of Math.floor(Math.random() * 100) tried, of 0..99
Randoms == {0, 7, 10, 99}

DobValues == {Null, "2001-02-03"}

PasswordValues == {Null, "secret1"}

\* a digit in a string concatenation
DigitChar(d) == <<"0", "1", "2", "3", "4", "5", "6", "7", "8", "9">>[d + 1]

\* a number below 100 in a string concatenation: no leading zero
NumberToString(n) ==
    IF n < 10 THEN <<DigitChar(n)>>
    ELSE <<DigitChar(n \div 10), DigitChar(n % 10)>>

\* str.split('').reverse().join('')
reverse(str) == [i \in 1..Len(str) |-> str[Len(str) + 1 - i]]

\* the characters of s from position i up to the next whitespace
WordFrom(s, i) ==
    LET stops == {j \in i..Len(s) : s[j] = " "}
        end   == IF stops = {} THEN Len(s) + 1
                 ELSE CHOOSE j \in stops : \A k \in stops : j <= k
    IN  SubSeq(s, i, end - 1)

\* name.split(/\s+/)[0]: empty when the name starts with whitespace
FirstNamePart(name) == WordFrom(name, 1)

\* name.split(/\s+/)[1] || nameParts[0]
SecondOrFirstNamePart(name) ==
    LET first == FirstNamePart(name)
        gap   == Len(first) + 1
        rest  == {j \in gap..Len(name) : name[j] # " "}
        second == IF rest = {} THEN <<>>
                  ELSE WordFrom(name, CHOOSE j \in rest :
                                         \A k \in rest : j <= k)
    IN  IF second = <<>> THEN first ELSE second

\* thirdLastDigit + secondLastDigit + lastDigit
ContactDigits(contactNo) ==
    <<DigitChar((contactNo \div 100) % 10),
      DigitChar((contactNo \div 10) % 10),
      DigitChar(contactNo % 10)>>

\* AdminService.generateUnivId(name, contactNo); random is the value of
\* Math.floor(Math.random() * 100)
generateUnivId(name, contactNo, random) ==
    reverse(FirstNamePart(name)) \o ContactDigits(contactNo)
        \o NumberToString(random) \o <<"@stu.edu">>

\* AdminService.generateUnivIdFaculty(name, contactNo)
generateUnivIdFaculty(name, contactNo, random) ==
    reverse(SecondOrFirstNamePart(name)) \o ContactDigits(contactNo)
        \o NumberToString(random) \o <<"@univ.edu">>

\* AdminService.generatePassword(dob): dob.toString() of the DATEONLY
\* string; a missing dob throws
generatePassword(dob) == IF dob = Null THEN "TypeError" ELSE dob

\* the bodies of the upload requests; a name or univId that is absent or
\* empty is <<>>, a contactNo that is absent is 0
StudentForms ==
    [name : Names \cup {<<>>}, email : StudentEmails,
     password : PasswordValues, dob : DobValues,
     contactNo : ContactNos, univId : {<<>>, <<"given">>}]

FacultyForms ==
    [name : Names, email : FacultyEmails, password : PasswordValues,
     dob : DobValues, contactNo : ContactNos]

\* studentData.password after the default is set
StudentPassword(form) ==
    IF form.password # Null THEN form.password
    ELSE IF form.dob # Null THEN generatePassword(form.dob)
    ELSE "password123"

\* savedStudent.univId after the default is set
StudentUnivId(form, random) ==
    IF form.univId # <<>> THEN form.univId
    ELSE generateUnivId(form.name,
                        IF form.contactNo = 0 THEN DefaultContactNo
                        ELSE form.contactNo,
                        random)

\* the Student row sent back: the password and univId it holds are those
\* passed to UserService.createUser
StudentRow(form, random) ==
    [owner |-> form.email, kind |-> "student", name |-> form.name,
     contactNo |-> form.contactNo, dob |-> form.dob,
     password |-> StudentPassword(form),
     univId |-> StudentUnivId(form, random)]

\* the Faculty row sent back: password and univId are always generated
FacultyRow(form, random) ==
    [owner |-> form.email, kind |-> "faculty", name |-> form.name,
     contactNo |-> form.contactNo, dob |-> form.dob,
     password |-> generatePassword(form.dob),
     univId |-> generateUnivIdFaculty(form.name, form.contactNo, random)]

\* one provisioning request is made, on the seeded store
CanProvision == NoneInFlight /\ nCalls = 0

\* POST /api/admin/upload-student
AdminUploadStudentPost(h, form, random, authOk) ==
    /\ CanProvision
    /\ LET route == "POST /admin/upload-student"
           g == AdminVerifyAdminAccess(users, h) IN
       IF ~g.pass THEN Refuse(route, h, form.email, g)
       ELSE IF form.name = <<>>
       THEN Respond(route, h, form.email, 400,
                    "Name and email are required", TRUE, NoBody)
       ELSE /\ uploadStudentDetail(form.email, authOk)
            /\ resp' = IF last'.ok
                       THEN Response(route, h, form.email, 200,
                                     "Student uploaded successfully", TRUE,
                                     StudentRow(form, random))
                       ELSE Response(route, h, form.email, 500,
                                     last'.message, TRUE, NoBody)

\* POST /api/admin/upload-faculty; without a dob generatePassword throws
\* after Faculty.create and before createUser
AdminUploadFacultyPost(h, form, random, authOk) ==
    /\ CanProvision
    /\ LET route == "POST /admin/upload-faculty"
           g == AdminVerifyAdminAccess(users, h) IN
       IF ~g.pass THEN Refuse(route, h, form.email, g)
       ELSE IF form.dob = Null /\ form.email \notin faculty
       THEN /\ faculty' = faculty \cup {form.email}
            /\ Done("uploadFaculty", FALSE, "TypeError")
            /\ resp' = Response(route, h, form.email, 500, "TypeError", TRUE,
                                NoBody)
            /\ UNCHANGED <<students, subjects, nextSubjectId, attendance,
                           users, accounts, images, adminFrame>>
       ELSE /\ uploadFacultyDetail(form.email, authOk)
            /\ resp' = IF last'.ok
                       THEN Response(route, h, form.email, 200,
                                     "Faculty uploaded successfully", TRUE,
                                     FacultyRow(form, random))
                       ELSE Response(route, h, form.email, 500,
                                     last'.message, TRUE, NoBody)

ProvisionHeaders == {x \in Headers : x.token \in {"tokA", "tokS1"}}

ProvisionNext ==
    \/ /\ CanProvision
       /\ \E h \in ProvisionHeaders, form \in StudentForms, r \in Randoms,
             ok \in BOOLEAN : AdminUploadStudentPost(h, form, r, ok)
    \/ /\ CanProvision
       /\ \E h \in ProvisionHeaders, form \in FacultyForms, r \in Randoms,
             ok \in BOOLEAN : AdminUploadFacultyPost(h, form, r, ok)

SpecProvision == Init /\ [][ProvisionNext]_vars

\* ======================================================== announcements
\* the announcement router over AnnouncementService; every request of this
\* part answers, so resp is the answer of the last request on the store

MaxAnnouncementCalls == 4

\* limit > 100 is refused
LimitCeiling == 100

\* parseInt(page), parseInt(limit); NaN is refused like 0
Pages == 0..MaxAnnouncementCalls
Limits == 0..(MaxAnnouncementCalls - 1) \cup {LimitCeiling, LimitCeiling + 1}

\* order: [['id', 'DESC']]
RECURSIVE OrderByIdDesc(_)
OrderByIdDesc(rows) ==
    IF rows = {} THEN <<>>
    ELSE LET top == CHOOSE x \in rows : \A y \in rows : y <= x IN
         <<top>> \o OrderByIdDesc(rows \ {top})

\* Math.ceil(count / limit)
Ceil(count, limit) == (count + limit - 1) \div limit

\* rows of a query with LIMIT limit OFFSET offset
LimitOffset(ordered, limit, offset) ==
    [i \in 1..(IF Len(ordered) - offset < 0 THEN 0
               ELSE IF Len(ordered) - offset < limit
               THEN Len(ordered) - offset ELSE limit) |-> ordered[offset + i]]

\* AnnouncementService.getAllAnnouncements()
getAllAnnouncements(rows) == OrderByIdDesc(rows)

\* AnnouncementService.getCurrentAnnouncement(): findOne, null without rows
getCurrentAnnouncement(rows) ==
    IF rows = {} THEN NoRow ELSE Head(OrderByIdDesc(rows))

\* variant: pages counted from 0
PageOffsetFromZero(page, limit) == page * limit

\* the offset of a page
PageOffset(page, limit) == (page - 1) * limit

\* AnnouncementService.getPaginatedAnnouncements(page, limit)
getPaginatedAnnouncements(rows, page, limit) ==
    LET offset == PageOffset(page, limit)
        count == Cardinality(rows) IN
    [owner |-> Null, kind |-> "page",
     announcements |-> LimitOffset(OrderByIdDesc(rows), limit, offset),
     totalCount |-> count,
     totalPages |-> Ceil(count, limit),
     currentPage |-> page,
     hasNextPage |-> page < Ceil(count, limit),
     hasPrevPage |-> page > 1]

CanAnnounce == NoneInFlight /\ nCalls < MaxAnnouncementCalls

announcementFrame ==
    <<storeVars, bulk, last, users, accounts, images, calendars,
      nextCalendarId>>

\* a request of this part that leaves the Announcement table alone
AnnouncementAnswer(route, h, status, msg, handled, body) ==
    /\ resp' = Response(route, h, Null, status, msg, handled, body)
    /\ nCalls' = nCalls + 1
    /\ UNCHANGED <<announcements, nextAnnouncementId, announcementFrame>>

\* POST /api/announcements
AnnouncementCreate(h, hasMessage) ==
    /\ CanAnnounce
    /\ LET route == "POST /announcements"
           g == AnnouncementVerifyAdminAccess(users, h) IN
       IF ~g.pass
       THEN AnnouncementAnswer(route, h, g.status, g.message, FALSE, NoBody)
       ELSE IF ~hasMessage
       THEN AnnouncementAnswer(route, h, 400,
               "Message is required and must be a non-empty string", TRUE,
               NoBody)
       ELSE /\ announcements' = announcements \cup {nextAnnouncementId}
            /\ nextAnnouncementId' = nextAnnouncementId + 1
            /\ resp' = Response(route, h, Null, 201,
                                "Announcement created successfully", TRUE,
                                [owner |-> Null, kind |-> "announcement",
                                 id |-> nextAnnouncementId])
            /\ nCalls' = nCalls + 1
            /\ UNCHANGED announcementFrame

\* DELETE /api/announcements/:id
AnnouncementDelete(h, id) ==
    /\ CanAnnounce
    /\ LET route == "DELETE /announcements"
           g == AnnouncementVerifyAdminAccess(users, h) IN
       IF ~g.pass
       THEN AnnouncementAnswer(route, h, g.status, g.message, FALSE, NoBody)
       ELSE IF id \notin announcements
       THEN AnnouncementAnswer(route, h, 404, "Announcement not found", TRUE,
                               NoBody)
       ELSE /\ announcements' = announcements \ {id}
            /\ resp' = Response(route, h, Null, 200,
                                "Announcement deleted successfully", TRUE,
                                NoBody)
            /\ nCalls' = nCalls + 1
            /\ UNCHANGED <<nextAnnouncementId, announcementFrame>>

\* GET /api/announcements
AnnouncementList(h) ==
    /\ CanAnnounce
    /\ LET route == "GET /announcements"
           g == verifyAuth(users, h) IN
       IF ~g.pass
       THEN AnnouncementAnswer(route, h, g.status, g.message, FALSE, NoBody)
       ELSE AnnouncementAnswer(route, h, 200, "", TRUE,
               [owner |-> Null, kind |-> "announcements",
                rows |-> getAllAnnouncements(announcements)])

\* GET /api/announcements/current
AnnouncementCurrent(h) ==
    /\ CanAnnounce
    /\ LET route == "GET /announcements/current"
           g == verifyAuth(users, h)
           announcement == getCurrentAnnouncement(announcements) IN
       IF ~g.pass
       THEN AnnouncementAnswer(route, h, g.status, g.message, FALSE, NoBody)
       ELSE IF announcement = NoRow
       THEN AnnouncementAnswer(route, h, 404, "No announcements found", TRUE,
                               NoBody)
       ELSE AnnouncementAnswer(route, h, 200, "", TRUE,
               [owner |-> Null, kind |-> "announcement",
                id |-> announcement])

\* GET /api/announcements/paginated?page=&limit=
AnnouncementPaginated(h, page, limit) ==
    /\ CanAnnounce
    /\ LET route == "GET /announcements/paginated"
           g == verifyAuth(users, h) IN
       IF ~g.pass
       THEN AnnouncementAnswer(route, h, g.status, g.message, FALSE, NoBody)
       ELSE IF page < 1
       THEN AnnouncementAnswer(route, h, 400,
               "Page must be a positive integer", TRUE, NoBody)
       ELSE IF limit < 1 \/ limit > LimitCeiling
       THEN AnnouncementAnswer(route, h, 400,
               "Limit must be between 1 and 100", TRUE, NoBody)
       ELSE AnnouncementAnswer(route, h, 200, "", TRUE,
               getPaginatedAnnouncements(announcements, page, limit))

AnnouncementHeaders == {x \in Headers : x.token \in {"tokA", "tokS1"}}

AnnouncementNext ==
    \/ \E h \in AnnouncementHeaders, m \in BOOLEAN : AnnouncementCreate(h, m)
    \/ \E h \in AnnouncementHeaders, id \in 1..MaxAnnouncementCalls :
          AnnouncementDelete(h, id)
    \/ \E h \in AnnouncementHeaders : AnnouncementList(h)
    \/ \E h \in AnnouncementHeaders : AnnouncementCurrent(h)
    \/ \E h \in AnnouncementHeaders, page \in Pages, limit \in Limits :
          AnnouncementPaginated(h, page, limit)

SpecAnnouncement == Init /\ [][AnnouncementNext]_vars

\* ------------------------------------- the summary over arbitrary stores
\* the marks one student can have in one subject on one date: none, one
\* record, or two records with the same key (the table has no unique index
\* on the key, and bulk calls that interleave leave such pairs)
Marks == {<<>>, <<TRUE>>, <<FALSE>>, <<TRUE, TRUE>>, <<TRUE, FALSE>>}

SummarySubjects == {1, 2}

SummaryDates == 1..MaxSummaryDate

\* the records of a student: marks m1 per date in subject 1, marks m2 on the
\* first date in subject 2
MarkedAttendance(email, m1, m2) ==
    {[id |-> (t[1] - 1) * 2 + t[2],
      studentEmail |-> email, facultyEmail |-> "f1", subjectId |-> 1,
      date |-> t[1], present |-> m1[t[1]][t[2]], remarks |-> "ok"] :
        t \in {u \in SummaryDates \X {1, 2} : u[2] <= Len(m1[u[1]])}}
    \cup
    {[id |-> 50 + i,
      studentEmail |-> email, facultyEmail |-> "f1", subjectId |-> 2,
      date |-> 1, present |-> m2[i], remarks |-> "ok"] :
        i \in 1..Len(m2)}

\* records of another student, which no summary of s1 may count
OtherAttendance ==
    {[id |-> 100 + d, studentEmail |-> "s2", facultyEmail |-> "f1",
      subjectId |-> 1, date |-> d, present |-> TRUE, remarks |-> "ok"] :
        d \in SummaryDates}

\* ten lectures with eight attended in subject 1, five out of five in subject 2
ExampleAttendance ==
    {[id |-> d, studentEmail |-> "s1", facultyEmail |-> "f1",
      subjectId |-> 1, date |-> d, present |-> (d <= 8), remarks |-> "ok"] :
        d \in 1..10}
    \cup
    {[id |-> 10 + d, studentEmail |-> "s1", facultyEmail |-> "f1",
      subjectId |-> 2, date |-> d, present |-> TRUE, remarks |-> "ok"] :
        d \in 1..5}

InitSummary ==
    /\ faculty = {"f1", "f2"}
    /\ students = {"s1", "s2"}
    /\ \E enrolled \in SUBSET SummarySubjects :
          subjects = [k \in SummarySubjects |->
                        [facultyEmail |-> "f1",
                         roster |-> (IF k \in enrolled THEN {"s1"} ELSE {})
                                        \cup (IF k = 1 THEN {"s2"} ELSE {})]]
    /\ nextSubjectId = 3
    /\ \/ \E m1 \in [SummaryDates -> Marks], m2 \in Marks :
             attendance = MarkedAttendance("s1", m1, m2) \cup OtherAttendance
       \/ attendance = ExampleAttendance \cup OtherAttendance
    /\ nextAttendanceId = 200
    /\ bulk = [p \in Procs |-> IdleSlot]
    /\ last = NoCall
    /\ nCalls = 0
    /\ users = SeedUsers
    /\ accounts = {u.email : u \in SeedUsers}
    /\ images = {"s1"}
    /\ announcements = {}
    /\ nextAnnouncementId = 1
    /\ calendars = {}
    /\ nextCalendarId = 1
    /\ resp = NoResponse

\* one summary request of a signed-in student against the store drawn
SummaryNext ==
    \E h \in {x \in Headers : x.token \in {"tokS1", "tokS2"}},
       e \in {"s1", "s2"}, a, b \in SummaryDates \cup {NoDate, 10},
       tieUp \in BOOLEAN :
       /\ nCalls = 0
       /\ StudentGetAttendanceSummary(h, e, a, b, tieUp)

SpecSummary == InitSummary /\ [][SummaryNext]_vars

\* =================================================================== claims

KeyOf(a) == <<a.studentEmail, a.subjectId, a.date>>

UniqueKeys(att) == \A a, b \in att : KeyOf(a) = KeyOf(b) => a = b

\* the slot p performs its write in this step
Writes(p) == bulk[p].pc = "write" /\ bulk'[p].pc = "student"

\* C1: with bulk-mark calls executed one at a time the Attendance table holds
\* at most one row per (studentEmail, subjectId, date); a write for a key that
\* already has a row adds no row, and after every write the key has exactly
\* one row, carrying the present and remarks of the tuple just written.
C1_OneRecordPerKey ==
    [][ /\ UniqueKeys(attendance')
        /\ \A p \in Procs : Writes(p) =>
              LET b   == bulk[p]
                  old == AttendanceFor(attendance, b.sa.studentEmail,
                                       b.subject.id, b.date)
                  new == AttendanceFor(attendance', b.sa.studentEmail,
                                       b.subject.id, b.date)
              IN  /\ Cardinality(new) = 1
                  /\ \A a \in new : a.present = b.sa.present
                                     /\ a.remarks = b.sa.remarks
                  /\ old # {} => Cardinality(attendance') =
                                    Cardinality(attendance)
      ]_vars

\* a call has just overwritten, in place, a row that an earlier call created
\* with the opposite present flag
C1_Witness ==
    \E p \in Procs :
        /\ bulk[p].pc = "student"
        /\ \E old \in bulk[p].before, new \in attendance :
              /\ old.id = new.id
              /\ old.present # new.present
              /\ Cardinality(attendance) = Cardinality(bulk[p].before)

StudentErrors == {"Student not found", "Student not enrolled"}

\* C2: a bulk-mark call that fails on a student who does not exist or is not
\* on the roster leaves the Attendance table exactly as it was before the call.
C2_FailedBatchLeavesStoreUnchanged ==
    (last.op = "markBulk" /\ ~last.ok /\ last.message \in StudentErrors)
        => last.unchanged

\* C3: a row is written only while the request's faculty exists, the subject
\* exists and the subject's faculty is the request's faculty; a call whose
\* faculty is missing, whose subject is missing or whose faculty does not
\* teach the subject fails with the corresponding message before any tuple
\* is processed, the table being as it was before the call.
C3_TeacherOfRecordPrecondition ==
    [][ \A p \in Procs :
          LET b == bulk[p]
              rejected(msg) ==
                  /\ last' = [op |-> "markBulk", ok |-> FALSE,
                              message |-> msg, who |-> Null,
                              unchanged |-> TRUE]
                  /\ b.results = <<>>
                  /\ attendance' = b.before
                  /\ bulk'[p].pc = "idle"
          IN  /\ Writes(p) =>
                    /\ b.facultyEmail \in faculty
                    /\ b.subjectId \in DOMAIN subjects
                    /\ subjects[b.subjectId].facultyEmail = b.facultyEmail
              /\ (attendance' # attendance) => \E q \in Procs : Writes(q)
              /\ (b.pc = "faculty" /\ b.facultyEmail \notin faculty)
                    => rejected("Faculty not found")
              /\ (b.pc = "subject" /\ b.subjectId \notin DOMAIN subjects)
                    => rejected("Subject not found")
              /\ (b.pc = "subject" /\ b.subjectId \in DOMAIN subjects
                    /\ subjects[b.subjectId].facultyEmail # b.facultyEmail)
                    => rejected("Faculty doesn't teach this subject")
      ]_vars

\* a call by an existing faculty for a subject taught by someone else has
\* been rejected
C3_Witness ==
    /\ last.op = "markBulk"
    /\ last.message = "Faculty doesn't teach this subject"
    /\ subjects # <<>>

\* C4: with operations executed one at a time, every Attendance row that a
\* bulk-mark call creates or updates is for a student who, at that write,
\* exists and is on the roster of the row's subject.
C4_WritesOnlyForRosterMembers ==
    [][ \A p \in Procs : Writes(p) =>
          /\ bulk[p].sa.studentEmail \in students
          /\ HasEnrolledStudents(subjects, bulk[p].subject.id,
                                 bulk[p].sa.studentEmail)
          /\ \A a \in attendance' \ attendance :
                /\ a.studentEmail = bulk[p].sa.studentEmail
                /\ a.subjectId = bulk[p].subject.id
      ]_vars

\* a row has been written for one student while another existing student is
\* off the roster of the same subject
C4_Witness ==
    \E p \in Procs :
        /\ bulk[p].pc = "student"
        /\ bulk[p].results # <<>>
        /\ \E e \in students : e \notin subjects[bulk[p].subject.id].roster

\* C5: createEnrollmentForSpecificStudents either creates exactly one
\* SubjectEnrollment whose roster is the set of requested emails, or fails and
\* leaves every row and roster link as it was; it fails whenever the faculty
\* does not exist or a listed email is no Student.
C5_SpecificRosterAllOrNothing ==
    [][ \A req \in EnrollmentRequests :
          createEnrollmentForSpecificStudents(req) =>
            /\ \/ /\ last'.ok
                  /\ nextSubjectId \notin DOMAIN subjects
                  /\ DOMAIN subjects' = DOMAIN subjects \cup {nextSubjectId}
                  /\ \A k \in DOMAIN subjects : subjects'[k] = subjects[k]
                  /\ subjects'[nextSubjectId].roster =
                        Range(req.studentEmails)
                  /\ subjects'[nextSubjectId].facultyEmail = req.emailId
               \/ /\ ~last'.ok
                  /\ subjects' = subjects
            /\ (req.emailId \notin faculty
                 \/ \E e \in Range(req.studentEmails) : e \notin students)
                  => (~last'.ok /\ subjects' = subjects)
      ]_vars

\* an enrollment with a roster of two has been created
C5_Witness ==
    /\ last.op = "createSpecific"
    /\ last.ok
    /\ Cardinality(subjects[nextSubjectId - 1].roster) = 2

\* the User row a request's Authorization header stands for, NoUser when the
\* header carries no Bearer token of a known user
Caller(h) ==
    IF h.scheme = "Bearer"
       /\ \E u \in users : u.firebaseUid = DecodeToken(h.token)
    THEN CHOOSE u \in users : u.firebaseUid = DecodeToken(h.token)
    ELSE NoUser

\* the header is absent, is not a Bearer header, or its token is rejected
Unauthenticated(h) == h.scheme # "Bearer" \/ DecodeToken(h.token) = ""

\* a response is produced or changed in this step
Answers == resp' # resp /\ resp'.route # "none"

\* everything a handler could read or write stays as it was
NothingWritten ==
    UNCHANGED <<storeVars, bulk, users, accounts, images, announcements,
                nextAnnouncementId, calendars, nextCalendarId>>

StudentEmailRoutes ==
    {"GET /student/profile", "GET /student/subjects",
     "GET /student/attendance-summary", "GET /student/attendance",
     "GET /student/profile-image"}

\* C6: on the student routes that take an email in the path (profile,
\* subjects, attendance-summary, attendance, profile-image) a request of a
\* signed-in student whose User email differs from the path email is
\* answered 403 and the response carries no data.
C6_OtherStudentsDataForbidden ==
    LET u == Caller(resp.header) IN
    (/\ resp.route \in StudentEmailRoutes
     /\ u # NoUser
     /\ u.role = "student"
     /\ u.email # resp.email)
        => (resp.status = 403 /\ resp.body = NoBody)

\* s2 asks for the profile image of s1, who has one
C6_Witness ==
    /\ resp.route = "GET /student/profile-image"
    /\ Caller(resp.header).email = "s2"
    /\ resp.email = "s1"
    /\ "s1" \in images
    /\ resp.status = 403

\* C7: a request to any protected route family whose Authorization header is
\* absent, does not start with "Bearer ", or carries a token that is rejected
\* is answered 401 (with the message "Authorization header with Bearer token
\* is required" in the first two cases), the handler does not run and
\* nothing in the store changes.
C7_UnauthenticatedIs401 ==
    [][(Answers /\ Unauthenticated(resp'.header))
          => /\ resp'.status = 401
             /\ ~resp'.handled
             /\ resp'.body = NoBody
             /\ (resp'.header.scheme # "Bearer"
                    => resp'.message = BearerRequired)
             /\ NothingWritten]_vars

\* a rejected token on the announcement write, with an announcement stored
C7_Witness ==
    /\ resp.route = "POST /announcements"
    /\ resp.header = [scheme |-> "Bearer", token |-> "tokBad"]
    /\ resp.status = 401
    /\ announcements # {}

\* the roles a route lets through
RequiredRoles(route) ==
    CASE route = "GET /admin/students"       -> {"admin"}
      [] route = "POST /announcements"       -> {"admin"}
      [] route = "POST /calendar/upload"     -> {"admin"}
      [] route = "DELETE /calendar"          -> {"admin"}
      [] route \in StudentEmailRoutes        -> {"student"}
      [] route = "GET /teacher/profile"      -> {"faculty"}
      [] route = "POST /attendance/bulk"     -> {"faculty", "admin"}
      [] route = "POST /subject-enrollment/create-specific"
                                             -> {"faculty", "admin"}
      [] OTHER                               -> {"admin", "faculty", "student"}

\* C8: a request of an authenticated user whose role is not the one the
\* route family requires (admin for /admin and for announcement and calendar
\* writes, student for /student, faculty for /teacher, faculty or admin for
\* /attendance and subject-enrollment writes) is answered 403, the handler
\* does not run and no state changes; a handler runs only for a user whose
\* role the route lets through.
C8_WrongRoleIs403 ==
    [][LET u == Caller(resp'.header) IN
       /\ ((/\ Answers
            /\ u # NoUser
            /\ u.role \notin RequiredRoles(resp'.route))
          => /\ resp'.status = 403
             /\ ~resp'.handled
             /\ resp'.body = NoBody
             /\ NothingWritten)
       /\ ((Answers /\ resp'.handled)
              => /\ u # NoUser
                 /\ u.role \in RequiredRoles(resp'.route))]_vars

\* a student posts bulk attendance for an existing subject
C8_Witness ==
    /\ resp.route = "POST /attendance/bulk"
    /\ Caller(resp.header).role = "student"
    /\ resp.status = 403
    /\ subjects # <<>>

\* the summary response of a student's own data
SummaryAnswered ==
    resp.route = "GET /student/attendance-summary" /\ resp.status = 200

\* q is n / d rounded to the nearest integer
Nearest(q, n, d) == 2 * (q * d - n) <= d /\ 2 * (n - q * d) <= d

\* C9: in the student attendance summary, for each subject the student is
\* enrolled in, totalLectures is the number of distinct dates among the
\* student's records of that subject in the date range, totalPresent is the
\* number of those records with present = true, and percentage is
\* totalPresent * 100 / totalLectures rounded to two decimals, 0 when
\* totalLectures is 0.
C9_PerSubjectSummary ==
    SummaryAnswered =>
        LET sm == resp.body.summary
            email == resp.email IN
        /\ DOMAIN sm.subjects =
              {k \in DOMAIN subjects : email \in subjects[k].roster}
        /\ \A k \in DOMAIN sm.subjects :
              LET recs == {a \in attendance :
                             /\ a.studentEmail = email
                             /\ a.subjectId = k
                             /\ a.date >= sm.startDate
                             /\ a.date <= sm.endDate}
                  row == sm.subjects[k] IN
              /\ row.totalLectures = Cardinality({a.date : a \in recs})
              /\ row.totalPresent = Cardinality({a \in recs : a.present})
              /\ row.totalLectures = 0 => row.percentage = 0
              /\ row.totalLectures > 0 =>
                    Nearest(row.percentage, row.totalPresent * 10000,
                            row.totalLectures)

\* a subject with two records on one date: one lecture, two presents
C9_Witness ==
    /\ SummaryAnswered
    /\ \E k \in DOMAIN resp.body.summary.subjects :
          /\ resp.body.summary.subjects[k].totalLectures = 1
          /\ resp.body.summary.subjects[k].totalPresent = 2
          /\ resp.body.summary.subjects[k].percentage = 20000

RECURSIVE SumOfPercentages(_, _)
SumOfPercentages(rows, ids) ==
    IF ids = {} THEN 0
    ELSE LET k == CHOOSE x \in ids : TRUE IN
         rows[k].percentage + SumOfPercentages(rows, ids \ {k})

\* C10: overallPercentage of the summary is the unweighted arithmetic mean of
\* the per-subject percentage values, rounded to two decimals, and 0 when the
\* student has no subjects; 8 of 10 in one subject and 5 of 5 in another give
\* 90.00.
C10_OverallIsUnweightedMean ==
    SummaryAnswered =>
        LET sm == resp.body.summary
            n == Cardinality(DOMAIN sm.subjects) IN
        /\ n = 0 => sm.overallPercentage = 0
        /\ n > 0 => Nearest(sm.overallPercentage,
                            SumOfPercentages(sm.subjects, DOMAIN sm.subjects),
                            n)

\* the 8 of 10 and 5 of 5 example
C10_Witness ==
    /\ SummaryAnswered
    /\ DOMAIN resp.body.summary.subjects = {1, 2}
    /\ resp.body.summary.subjects[1] =
          [totalLectures |-> 10, totalPresent |-> 8, percentage |-> 8000]
    /\ resp.body.summary.subjects[2] =
          [totalLectures |-> 5, totalPresent |-> 5, percentage |-> 10000]
    /\ resp.body.summary.overallPercentage = 9000

\* ------------------------------------------------------ subject reports
StatsAnswered ==
    /\ resp.route = "GET /attendance/stats/subject"
    /\ resp.status = 200

TeacherStatsAnswered ==
    /\ resp.route = "GET /teacher/attendance-stats"
    /\ resp.status = 200

\* present records over (distinct class dates of the subject * roster size),
\* in hundredths of a percent, 0 when nothing is possible
PercentageByRoster(att, subj, sid) ==
    LET records == {a \in att : a.subjectId = sid}
        possible == Cardinality({a.date : a \in records})
                    * (IF sid \in DOMAIN subj
                       THEN Cardinality(subj[sid].roster) ELSE 0)
    IN  IF possible > 0
        THEN RoundDiv(Cardinality({a \in records : a.present}) * 10000,
                      possible)
        ELSE 0

\* C11: every subject-level statistics answer, of GET
\* /attendance/stats/subject/:subjectId and of the teacher attendance-stats
\* route, carries the percentage present records / (distinct class dates of
\* the subject * roster size of the subject), so both routes agree on a
\* subject in one store state.
C11_StatsDivideByDatesTimesRoster ==
    /\ StatsAnswered =>
          resp.body.stats.attendancePercentage =
             PercentageByRoster(attendance, subjects, resp.body.subjectId)
    /\ TeacherStatsAnswered =>
          \A k \in DOMAIN resp.body.stats :
             resp.body.stats[k].percentage =
                PercentageByRoster(attendance, subjects, k)

\* C12: after any sequence of non-overlapping bulk-mark and roster
\* operations and for every date range, each per-subject percentage and the
\* overallPercentage of the student attendance summary, and the
\* attendancePercentage of getSubjectAttendanceStats, lie between 0 and 100
\* (in hundredths), and each is 0 when the store holds no attendance date
\* for it.
C12_PercentagesWithinBounds ==
    /\ SummaryAnswered =>
          LET summary == resp.body.summary
              NoDates(k) == RecordsInRange(attendance, resp.email, k,
                                           summary.startDate,
                                           summary.endDate) = {}
          IN  /\ \A k \in DOMAIN summary.subjects :
                    /\ summary.subjects[k].percentage \in 0..10000
                    /\ NoDates(k) => summary.subjects[k].percentage = 0
              /\ summary.overallPercentage \in 0..10000
              /\ (\A k \in DOMAIN summary.subjects : NoDates(k))
                    => summary.overallPercentage = 0
    /\ StatsAnswered =>
          /\ resp.body.stats.attendancePercentage \in 0..10000
          /\ {a \in attendance : a.subjectId = resp.body.subjectId} = {}
                => resp.body.stats.attendancePercentage = 0

\* a student marked present on every one of two dates is told 100 percent
C12_Witness ==
    /\ SummaryAnswered
    /\ \E k \in DOMAIN resp.body.summary.subjects :
          /\ resp.body.summary.subjects[k].totalLectures = 2
          /\ resp.body.summary.subjects[k].percentage = 10000
    /\ resp.body.summary.overallPercentage = 10000

ByDateAnswered ==
    /\ resp.route = "GET /attendance/subject/date"
    /\ resp.status = 200

\* C18: GET /attendance/subject/:subjectId/date/:date answers exactly one
\* entry per current roster member of the subject; an entry's present flag
\* is that of the stored record for (student, subject, date) and false when
\* there is none, so marking a student again on that date can change the
\* flag but never the number of entries.
C18_OneEntryPerRosterMember ==
    ByDateAnswered =>
       LET sid == resp.body.subjectId
           entries == resp.body.attendance IN
       /\ DOMAIN entries = subjects[sid].roster
       /\ \A e \in DOMAIN entries :
             LET stored == AttendanceFor(attendance, e, sid, resp.body.date)
             IN  IF stored = {} THEN ~entries[e].present
                 ELSE \E a \in stored : entries[e].present = a.present

\* two roster members, one marked present on the date asked for and one
\* never marked: two entries, true and false
C18_Witness ==
    /\ ByDateAnswered
    /\ Cardinality(DOMAIN resp.body.attendance) = 2
    /\ \E e1, e2 \in DOMAIN resp.body.attendance :
          /\ resp.body.attendance[e1].present
          /\ resp.body.attendance[e1].id # NoRow
          /\ resp.body.attendance[e2].id = NoRow
          /\ ~resp.body.attendance[e2].present

\* ----------------------------------------------------- administration
\* C13: createEnrollmentForAllStudents succeeds exactly when the faculty
\* exists and at least one Student row exists; it then creates exactly one
\* SubjectEnrollment, taught by that faculty, whose roster is the set of
\* all Student rows of the moment, and otherwise creates no enrollment and
\* no roster link.
C13_CreateForAllLinksEveryStudent ==
    [][\A f \in FacultyEmails :
          createEnrollmentForAllStudents(f) =>
             IF f \in faculty /\ students # {}
             THEN /\ last'.ok
                  /\ \E id \in DOMAIN subjects' :
                        /\ id \notin DOMAIN subjects
                        /\ DOMAIN subjects' = DOMAIN subjects \cup {id}
                        /\ subjects'[id] = [facultyEmail |-> f,
                                            roster |-> students]
                  /\ \A k \in DOMAIN subjects : subjects'[k] = subjects[k]
             ELSE /\ ~last'.ok
                  /\ subjects' = subjects]_vars

\* after a third student was uploaded, create-for-all enrolled all three
C13_Witness ==
    /\ last.op = "createAll"
    /\ last.ok
    /\ Cardinality(students) = 3
    /\ \E k \in DOMAIN subjects : subjects[k].roster = students

\* the request reached the service: the gate and the validation passed
RosterServed(route) ==
    /\ resp'.route = route
    /\ resp'.handled
    /\ resp'.status # 400

\* C14: adding and removing a roster member are idempotent.  A request that
\* reaches the service is answered 404, with nothing changed, exactly when
\* the enrollment or the student does not exist; otherwise it is answered
\* 200 and the roster is the old one with the student on it (add) or off it
\* (remove), so a student already on it (or already off it) leaves the
\* roster unchanged and a second application changes nothing.
C14_RosterChangesAreIdempotent ==
    [][\A id \in SubjectIds \cup {0} :
          LET e == resp'.email
              exists == id \in DOMAIN subjects /\ e \in students IN
          /\ (/\ EnrollmentAddStudentPost(resp'.header, id, e)
              /\ RosterServed("POST /subject-enrollment/add-student"))
                => IF exists
                   THEN /\ resp'.status = 200
                        /\ subjects' = [subjects EXCEPT
                                           ![id].roster = @ \cup {e}]
                        /\ e \in subjects[id].roster => subjects' = subjects
                        /\ AddToRoster(subjects', id, e) = subjects'
                   ELSE /\ resp'.status = 404
                        /\ UNCHANGED storeVars
          /\ (/\ EnrollmentRemoveStudent(resp'.header, id, e)
              /\ RosterServed("DELETE /subject-enrollment/remove-student"))
                => IF exists
                   THEN /\ resp'.status = 200
                        /\ subjects' = [subjects EXCEPT
                                           ![id].roster = @ \ {e}]
                        /\ e \notin subjects[id].roster
                              => subjects' = subjects
                        /\ RemoveFromRoster(subjects', id, e) = subjects'
                   ELSE /\ resp'.status = 404
                        /\ UNCHANGED storeVars]_vars

\* a student already on the roster was added again and the answer was 200
C14_Witness ==
    /\ resp.route = "POST /subject-enrollment/add-student"
    /\ resp.status = 200
    /\ last.op = "addStudent"
    /\ nCalls = 2
    /\ \E k \in DOMAIN subjects : resp.email \in subjects[k].roster
    /\ Cardinality(students) = 2

\* C15: in every state reachable through the application's operations
\* (enrollment create-all, create-specific, update and delete; faculty
\* upload, update and delete), the facultyEmail of each SubjectEnrollment
\* is the email of an existing Faculty row.
C15_EnrollmentFacultyExists ==
    \A k \in DOMAIN subjects : subjects[k].facultyEmail \in faculty

\* an enrollment was moved to a faculty uploaded in the same behaviour
C15_Witness ==
    /\ last.op = "updateEnrollment"
    /\ last.ok
    /\ \E k \in DOMAIN subjects : subjects[k].facultyEmail = "f3"

\* C16: when the creation of the identity-provider user fails during
\* uploadStudentDetail, the Student row inserted by the call is deleted
\* before the error is returned: the Student rows after the failed call are
\* those before it.
C16_FailedStudentUploadLeavesNoRow ==
    [][\A e \in StudentEmails, authOk \in BOOLEAN :
          (uploadStudentDetail(e, authOk) /\ ~last'.ok)
             => students' = students]_vars

\* the upload of s3 failed at the identity provider and s3 has no row
C16_Witness ==
    /\ last.op = "uploadStudent"
    /\ ~last.ok
    /\ last.message = "Failed to create Firebase user"
    /\ "s3" \notin students
    /\ "s3" \notin accounts

\* the row of that email has an identity-provider account and a User row
Provisioned(us, acc, email) ==
    email \in acc /\ \E u \in us : u.email = email

\* C17: when the creation of the identity-provider user fails during
\* uploadFacultyDetail, or for any student during
\* uploadDetailsOfStudentsBulk, the rows inserted by the call are rolled
\* back: no Faculty or Student row inserted by the failed call remains
\* without a matching identity and User row.
C17_FailedUploadsLeaveNoOrphan ==
    [][(/\ last'.op \in {"uploadFaculty", "uploadBulk"}
        /\ nCalls' = nCalls + 1
        /\ ~last'.ok)
          => \A e \in (faculty' \ faculty) \cup (students' \ students) :
                Provisioned(users', accounts', e)]_vars

\* C19: POST /auth/login without an idToken is answered 400 'ID token is
\* required'; with an idToken it is answered 200 exactly when the verifier
\* accepts the token and a User row has its uid, and then redirectUrl is
\* /admin/dashboard, /student/dashboard or /teacher/dashboard for the roles
\* admin, student and faculty; in every other case it is answered 401.
C19_LoginOutcome ==
    [][\A t \in Tokens \cup {""} :
          AuthLogin(t) =>
             IF t = ""
             THEN /\ resp'.status = 400
                  /\ resp'.message = "ID token is required"
             ELSE IF \E u \in users : /\ DecodeToken(t) # ""
                                       /\ u.firebaseUid = DecodeToken(t)
             THEN LET u == CHOOSE x \in users :
                              x.firebaseUid = DecodeToken(t) IN
                  /\ resp'.status = 200
                  /\ resp'.body.role = u.role
                  /\ u.role = "admin"
                        => resp'.body.redirectUrl = "/admin/dashboard"
                  /\ u.role = "student"
                        => resp'.body.redirectUrl = "/student/dashboard"
                  /\ u.role = "faculty"
                        => resp'.body.redirectUrl = "/teacher/dashboard"
             ELSE resp'.status = 401]_vars

\* the faculty f1 logged in and was sent to the teacher dashboard
C19_Witness ==
    /\ resp.route = "POST /auth/login"
    /\ resp.status = 200
    /\ resp.body.role = "faculty"
    /\ resp.body.redirectUrl = "/teacher/dashboard"

\* ------------------------------------------------- concurrent requests
\* C20: markBulkAttendance finds and creates in separate store steps with no
\* transaction around them and no unique constraint on (studentEmail,
\* subjectId, date): a write that follows a find of no record inserts a new
\* row whatever the table holds by then, so two concurrent requests for one
\* key can both find nothing and both create (the state of C20_Witness).
C20_CreateFollowsStaleFind ==
    [][\A p \in Procs :
          (BulkWrite(p) /\ bulk[p].found = NoRow)
             => /\ attendance \subseteq attendance'
                /\ Cardinality(attendance') = Cardinality(attendance) + 1
                /\ \E a \in attendance' \ attendance :
                      KeyOf(a) = <<bulk[p].sa.studentEmail,
                                   bulk[p].subject.id, bulk[p].date>>]_vars

\* two Attendance records of one key, written by two requests
C20_Witness ==
    /\ \E a, b \in attendance : a.id # b.id /\ KeyOf(a) = KeyOf(b)
    /\ nCalls = 2
    /\ last.ok

\* -------------------------------------------------------- provisioning
StudentUploaded ==
    /\ resp.route = "POST /admin/upload-student"
    /\ resp.status = 200

FacultyUploaded ==
    /\ resp.route = "POST /admin/upload-faculty"
    /\ resp.status = 200

\* the first whitespace-separated word of a name
FirstWord(name) ==
    LET letters == {j \in 1..Len(name) : name[j] # " "} IN
    IF letters = {} THEN <<>>
    ELSE WordFrom(name, CHOOSE j \in letters : \A k \in letters : j <= k)

\* the reversed word, the hundreds, tens and units digits of the contact
\* number, two digits and the domain suffix
IsUnivId(id, name, contactNo, domain) ==
    \E d1, d2 \in 0..9 :
       id = reverse(FirstWord(name))
               \o <<DigitChar((contactNo \div 100) % 10),
                     DigitChar((contactNo \div 10) % 10),
                     DigitChar(contactNo % 10)>>
               \o <<DigitChar(d1), DigitChar(d2)>> \o <<domain>>

\* C21: the generated university ID is, for students and for faculty
\* alike, the reversed first whitespace-separated word of the name, then
\* the hundreds, tens and units digits of the contact number, then a random
\* suffix of exactly two digits, then the domain suffix ('@stu.edu' for
\* students, '@univ.edu' for faculty).
C21_UnivIdFormat ==
    /\ (/\ StudentUploaded
        /\ resp.body.univId # <<"given">>
        /\ resp.body.contactNo > 0)
          => IsUnivId(resp.body.univId, resp.body.name, resp.body.contactNo,
                      "@stu.edu")
    /\ FacultyUploaded
          => IsUnivId(resp.body.univId, resp.body.name, resp.body.contactNo,
                      "@univ.edu")

\* the password the claim expects: the supplied one, else the date of birth
PasswordExpected(supplied, dob) == IF supplied # Null THEN supplied ELSE dob

\* C22: in student and in faculty provisioning a password supplied in the
\* request is the one used to create the identity account, and without a
\* supplied password the one used is the string form of the date of birth
\* (requests that carry a date of birth).
C22_PasswordSuppliedOrDob ==
    [][\A h \in ProvisionHeaders, pw \in PasswordValues,
          u \in {<<>>, <<"given">>}, r \in Randoms, ok \in BOOLEAN :
          (resp'.status = 200 /\ resp'.body.dob # Null) =>
             LET b == resp'.body
                 sform == [name |-> b.name, email |-> b.owner,
                           password |-> pw, dob |-> b.dob,
                           contactNo |-> b.contactNo, univId |-> u]
                 fform == [name |-> b.name, email |-> b.owner,
                           password |-> pw, dob |-> b.dob,
                           contactNo |-> b.contactNo]
             IN /\ AdminUploadStudentPost(h, sform, r, ok)
                      => b.password = PasswordExpected(pw, b.dob)
                /\ (b.name # <<>> /\ AdminUploadFacultyPost(h, fform, r, ok))
                      => b.password = PasswordExpected(pw, b.dob)]_vars

\* --------------------------------------------- teacher statistics, roster
\* C23: after any sequence of bulk-mark, add-student and remove-student
\* operations on a subject, the percentage the teacher attendance-stats
\* route reports for it lies between 0 and 100 (in hundredths) and
\* totalPresent does not exceed totalPossible.
C23_TeacherStatsWithinBounds ==
    TeacherStatsAnswered =>
       \A k \in DOMAIN resp.body.stats :
          /\ resp.body.stats[k].percentage \in 0..10000
          /\ resp.body.stats[k].totalPresent <= resp.body.stats[k].totalPossible

\* -------------------------------------------------------- announcements
\* the rows newest first: the i-th has i - 1 rows of greater id before it
NewestFirst(rows) ==
    [i \in 1..Cardinality(rows) |->
        CHOOSE x \in rows : Cardinality({y \in rows : y > x}) = i - 1]

\* the rows of pages p..total of one limit, one page after the other
RECURSIVE PagesJoined(_, _, _, _)
PagesJoined(rows, limit, p, total) ==
    IF p > total THEN <<>>
    ELSE getPaginatedAnnouncements(rows, p, limit).announcements
            \o PagesJoined(rows, limit, p + 1, total)

\* C24: the list of all announcements is newest first (descending id), the
\* current announcement is the one of greatest id, and a page (page >= 1,
\* limit >= 1) holds the items at positions (page-1)*limit .. page*limit-1
\* of that order, with totalPages = ceil(totalCount/limit), hasNextPage
\* exactly when page < totalPages and hasPrevPage exactly when page > 1, so
\* that pages 1..totalPages together hold every announcement exactly once.
C24_AnnouncementsNewestFirstAndPaged ==
    [][/\ (resp'.route = "GET /announcements" /\ resp'.status = 200)
            => resp'.body.rows = NewestFirst(announcements')
       /\ (resp'.route = "GET /announcements/current" /\ resp'.status = 200)
            => /\ resp'.body.id \in announcements'
               /\ \A y \in announcements' : y <= resp'.body.id
       /\ \A h \in AnnouncementHeaders, page \in Pages, limit \in Limits :
             (/\ page >= 1 /\ limit >= 1
              /\ AnnouncementPaginated(h, page, limit)
              /\ resp'.status = 200) =>
                LET b == resp'.body
                    all == NewestFirst(announcements')
                    positions == {k \in 0..(Len(all) - 1) :
                                    /\ (page - 1) * limit <= k
                                    /\ k <= page * limit - 1}
                IN  /\ Len(b.announcements) = Cardinality(positions)
                    /\ \A i \in 1..Len(b.announcements) :
                          b.announcements[i] = all[(page - 1) * limit + i]
                    /\ b.totalCount = Len(all)
                    /\ (b.totalPages - 1) * limit < Len(all) \/ Len(all) = 0
                    /\ b.totalPages * limit >= Len(all)
                    /\ Len(all) = 0 => b.totalPages = 0
                    /\ b.hasNextPage <=> page < b.totalPages
                    /\ b.hasPrevPage <=> page > 1
                    /\ PagesJoined(announcements', limit, 1, b.totalPages)
                          = all]_vars

C24_Witness ==
    /\ resp.route = "GET /announcements/paginated"
    /\ resp.status = 200
    /\ resp.body.currentPage = 2
    /\ resp.body.totalPages >= 3
    /\ resp.body.hasNextPage /\ resp.body.hasPrevPage
    /\ Len(resp.body.announcements) = 1

\* ------------------------------------------ bulk marking, caller identity
\* C25: through POST /attendance/bulk a caller with role faculty creates or
\* updates Attendance records only for a subject whose teacher of record is
\* the caller: when the caller's email differs from the subject's
\* facultyEmail, no record is written.
C25_FacultyMarksOwnSubjectsOnly ==
    [][(/\ resp.route = "POST /attendance/bulk"
        /\ Caller(resp.header) # NoUser
        /\ Caller(resp.header).role = "faculty")
          => \A a \in attendance' \ attendance :
                subjects[a.subjectId].facultyEmail
                   = Caller(resp.header).email]_vars

\* ------------------------------------- bulk marking, repeated students
\* the tuples of the call in slot p that are written, being processed or
\* still to come
TuplesAccounted(slot) ==
    Len(slot.results) + slot.left
       + (IF slot.pc \in {"enrolled", "find", "write"} THEN 1 ELSE 0)

\* C26: a single bulk-mark request that lists the same student in several
\* tuples stores exactly one Attendance record for that (student, subject,
\* date), holding present and remarks of the last such tuple, and the
\* returned array has one element per input tuple in input order: every
\* write of a tuple leaves one record of its key, holding the tuple's
\* values, and appends that record to the results, and no tuple is skipped
\* or counted twice between the start of the call and its return.
C26_RepeatedStudentOneRecordLastWins ==
    [][\A p \in Procs :
          /\ BulkWrite(p) =>
                LET b == bulk[p]
                    rows == AttendanceFor(attendance', b.sa.studentEmail,
                                          b.subject.id, b.date)
                IN  /\ Cardinality(rows) = 1
                    /\ \A a \in rows :
                          /\ a.present = b.sa.present
                          /\ a.remarks = b.sa.remarks
                          /\ bulk'[p].results = Append(b.results, a.id)
          /\ (bulk[p].pc = "idle" /\ bulk'[p].pc # "idle")
                => TuplesAccounted(bulk'[p]) = bulk'[p].left
          /\ (bulk[p].pc # "idle" /\ bulk'[p].pc # "idle")
                => TuplesAccounted(bulk'[p]) = TuplesAccounted(bulk[p])]_vars

\* a request whose two tuples named the same student: both results are the
\* one record
C26_Witness ==
    \E p \in Procs :
       /\ bulk[p].pc = "student"
       /\ bulk[p].left = 0
       /\ Len(bulk[p].results) = 2
       /\ bulk[p].results[1] = bulk[p].results[2]
       /\ \E a \in attendance : a.id = bulk[p].results[2] /\ a.present

\* ------------------------------------------------- createUser, failures
\* C27: a call of UserService.createUser that fails leaves the identity
\* provider's accounts and the User table as they were before the call (an
\* earlier account and User row of the email are not lost, no account
\* without a User row is left behind); seen through the single uploads,
\* which call createUser once.
C27_FailedCreateUserChangesNothing ==
    [][(/\ nCalls' # nCalls
        /\ last'.op \in {"uploadStudent", "uploadFaculty"}
        /\ ~last'.ok)
          => /\ users' = users
             /\ accounts' = accounts]_vars

\* --------------------------------------- enrollment of listed students
\* C28: createEnrollmentForSpecificStudents succeeds for every request
\* whose faculty exists and whose listed emails all resolve to existing
\* Students, for any list including one that repeats an email, and the
\* roster of the created enrollment is the set of listed emails.
C28_CreateSpecificAcceptsEveryResolvableList ==
    [][\A req \in EnrollmentRequests :
          (/\ createEnrollmentForSpecificStudents(req)
           /\ req.emailId \in faculty
           /\ Range(req.studentEmails) \subseteq students)
             => /\ last'.ok
                /\ subjects'[nextSubjectId].roster
                      = Range(req.studentEmails)]_vars

C30_DeletedPersonLosesAccess ==
    [][\A e \in StudentEmails \cup FacultyEmails, cascade \in BOOLEAN :
          (/\ deleteStudent(e, cascade) \/ deleteFaculty(e, cascade)
           /\ last'.ok)
             => /\ \A u \in users' : u.email # e
                /\ \A h \in Headers :
                      /\ verifyStudentAccess(users', h).pass
                            => verifyStudentAccess(users', h).user.email # e
                      /\ TeacherVerifyFacultyAccess(users', h).pass
                            => TeacherVerifyFacultyAccess(users', h).user.email
                                  # e]_vars

\* C30, amended: a successful deleteStudent or deleteFaculty removes the
\* Student or Faculty row and nothing of the person's identity: the User
\* rows and the identity accounts stay as they were, so a token that passed
\* the student or faculty role gate before the deletion passes it after.
C30_DeleteLeavesUserRowAndAccess ==
    [][\A e \in StudentEmails \cup FacultyEmails, cascade \in BOOLEAN :
          /\ (deleteStudent(e, cascade) /\ last'.ok) => e \notin students'
          /\ (deleteFaculty(e, cascade) /\ last'.ok) => e \notin faculty'
          /\ (/\ deleteStudent(e, cascade) \/ deleteFaculty(e, cascade)
              /\ last'.ok)
                => /\ users' = users
                   /\ accounts' = accounts
                   /\ \A h \in Headers :
                         /\ verifyStudentAccess(users, h).pass
                               => verifyStudentAccess(users', h).pass
                         /\ TeacherVerifyFacultyAccess(users, h).pass
                               => TeacherVerifyFacultyAccess(users', h).pass]_vars

\* a deleted student whose token is still admitted
C30_Witness ==
    /\ last.op = "deleteStudent"
    /\ last.ok
    /\ \E h \in Headers :
          /\ verifyStudentAccess(users, h).pass
          /\ verifyStudentAccess(users, h).user.email \notin students

====
